---- MODULE Spec2Model ----
(***************************************************************************)
(* Model of the npm-security-detector batch tools.                         *)
(*                                                                         *)
(*   Fetch Pipeline   download-packages.js   (runQueue / processPackage)   *)
(*   Sandbox Executor dynamic_c2_scan_docker (sequential docker loop)      *)
(*                                                                         *)
(* JavaScript runs every callback to completion, so one action is one      *)
(* callback (an I/O completion or a promise continuation) together with    *)
(* all the synchronous code it runs up to the next await.                  *)
(***************************************************************************)
EXTENDS Integers, Sequences, FiniteSets, TLC

VARIABLES
    \* ---- Fetch Pipeline (download-packages.js) ----
    items,        \* `lines`: the package names read from the input file
    concurrency,  \* CONCURRENCY
    extracted,    \* safe names whose <outDir>/<safe> holds extracted content
    preExisting,  \* history: value of `extracted` when the process started
    idx,          \* runQueue: number of items handed to enqueueNext so far
    active,       \* runQueue: the `active` array (job ids, push order)
    jobs,         \* per item: where its processPackage call stands
    race,         \* the Promise.race the dispatcher loop is awaiting
    results,      \* runQueue: the `results` array
    ledger,       \* success_packages.txt / failed_packages.txt
    mainPc,       \* position of the top-level async function
    served,       \* the metadata documents the registry may answer with
    cutoffDate,   \* cutoffDate, as the number new Date(..) holds (ms)
    \* ---- Sandbox Executor (dynamic_c2_scan_docker.js) ----
    pkgs,         \* the package names read from the packages file
    i,            \* the loop index of the main loop (1-based)
    execPc,       \* position of the executor process
    outJson,      \* per safe name: the file <outDir>/<safe>.json
    outTxt,       \* per safe name: the file <outDir>/<safe>.txt
    markers,      \* per safe name: which of .start.txt / .end.txt exist
    ctr,          \* position of the script inside the container
    capture,      \* the tshark capture of the running container
    install,      \* the `npm i` of the running (or of the last) container
    log,          \* per list position: what the current run printed for it
    dockerRuns,   \* history: per safe name, how often docker was invoked
    now,          \* the clock new Date() reads
    starts,       \* history: how many times the executor process was started
    \* ---- Sandbox Executor, the reading of <safe>.txt on its own ----
    readTxt,      \* the lines of a <safe>.txt file
    readDomains,  \* `domains` as lines 95-111 leave it
    \* ---- Reputation Enricher (server.js, GET /scan/c2) ----
    stdout,          \* the lines tshark printed: one queried name per line
    selectedDomains, \* selectedDomains
    lookups,         \* per selected domain: where its queryVirusTotal call stands
    clock,           \* the time (ms) since the handler selected the domains
    c2Pc,            \* position of the handler
    c2Data,          \* the response body
    \* ---- Sampler (sample_packages.js) ----
    fileLines,    \* the lines of the input file
    sampleSize,   \* sampleSize
    seed,         \* the argument of makeRNG
    runs,         \* per run of the script: where it stands
    \* ---- Heuristic Scanner (server, isObfuscated) ----
    code,         \* the text given to isObfuscated
    verdicts,     \* what the calls of isObfuscated on that text returned
    \* ---- Server (server.js): result store and request handlers ----
    db,           \* the connection: `db` is set only when "connected"
    collection,   \* the documents of scanResults, in the order of insertion
    date,         \* the clock new Date() reads in the server
    requests,     \* per request: where its handler stands
    tree,         \* the directory a /scan/obfuscation request is about
    \* ---- Batch obfuscation scanner (part_002, lines 73-142) ----
    batchPkgs,    \* `pkgs`: the package names read from packages.txt
    batchIdx,     \* `idx`: the index the workers share (0-based)
    targets,      \* safe names whose <baseDir>/<safe>/package exists
    workers,      \* per worker(): where it stands and the position it took
    outFiles,     \* the files of <outDir> (names after the safe name)
    scans,        \* history: per list position, who took it and what it wrote
    batchPc       \* position of the top-level async function

fetchVars == <<items, concurrency, extracted, preExisting, idx, active, jobs,
               race, results, ledger, mainPc>>

execVars == <<pkgs, i, execPc, outJson, outTxt, markers, ctr, capture, install,
              log, dockerRuns, now, starts>>

registryVars == <<served, cutoffDate>>

parseVars == <<readTxt, readDomains>>

enrichVars == <<stdout, selectedDomains, lookups, clock, c2Pc, c2Data>>

sampleVars == <<fileLines, sampleSize, seed, runs>>

classifyVars == <<code, verdicts>>

serverVars == <<db, collection, date, requests, tree>>

batchVars == <<batchPkgs, batchIdx, targets, workers, outFiles, scans,
               batchPc>>

vars == <<fetchVars, registryVars, execVars, parseVars, enrichVars, sampleVars,
          classifyVars, serverVars, batchVars>>

nonFetchVars == <<registryVars, execVars, parseVars, enrichVars, sampleVars,
                  classifyVars, serverVars, batchVars>>
nonExecVars == <<fetchVars, registryVars, parseVars, enrichVars, sampleVars,
                 classifyVars, serverVars, batchVars>>
nonParseVars == <<fetchVars, registryVars, execVars, enrichVars, sampleVars,
                  classifyVars, serverVars, batchVars>>
nonEnrichVars == <<fetchVars, registryVars, execVars, parseVars, sampleVars,
                   classifyVars, serverVars, batchVars>>
nonSampleVars == <<fetchVars, registryVars, execVars, parseVars, enrichVars,
                   classifyVars, serverVars, batchVars>>
nonClassifyVars == <<fetchVars, registryVars, execVars, parseVars, enrichVars,
                     sampleVars, serverVars, batchVars>>
nonServerVars == <<fetchVars, registryVars, execVars, parseVars, enrichVars,
                   sampleVars, classifyVars, batchVars>>
nonBatchVars == <<fetchVars, registryVars, execVars, parseVars, enrichVars,
                  sampleVars, classifyVars, serverVars>>

----------------------------------------------------------------------------
(* Bounds of the model *)

MaxItems == 4    \* longest input list of the dispatcher model (QueueSpec)
MaxJobs == 2     \* longest input list of the detailed job model (FetchSpec)
MaxConc == 3     \* largest concurrency limit
MaxPkgs == 3     \* longest package list of the Sandbox Executor
MaxStarts == 2   \* how many times the executor process is started
MaxVersions == 3 \* most versions of one metadata document (ResolveSpec)
MaxTime == 3     \* latest publish day and latest cutoff day (ResolveSpec)
MaxLines == 3    \* most lines of a <safe>.txt file (ParseSpec)
MaxCaptured == 8 \* most lines of the capture output (EnrichSpec)
MaxTicks == 2    \* how long the clock of the enricher runs, in delays
MaxFileLines == 6 \* most lines of the sampler's input file
MaxSample == 5   \* largest sample size
MaxRuns == 2     \* most runs of characters a classified text is made of
MaxCalls == 2    \* how often one text is classified
MaxRequests == 3 \* most requests to the result store (StoreSpec)
MaxCount == 2    \* largest count of one severity in the audit report
MaxAdvisories == 1 \* most advisories of the audit report
MaxDnsLines == 3 \* most lines of the capture output of /scan/score
MaxExtraFiles == 5 \* how many files a directory holds beyond maxFiles
MaxExtraDepth == 2 \* how many levels a tree goes on below maxDepth
MaxDate == 2     \* latest reading of the server's clock
MaxBatch == 6    \* longest package list of the batch obfuscation scanner

(* Program constants *)

MAX_DL_TRIES == 3
maxQueries == 5
QueryDelayMs == 1000
ProgramSeed == 20250801
SingleLineLimit == 1000
AvgLineLimit == 200
maxFiles == 200
maxDepth == 4
CONCURRENCY == 5

----------------------------------------------------------------------------
(* Package names are sequences of characters, so that the name-safety     *)
(* transform is a computation on the characters.                           *)

Plain == <<"a">>
Scoped == <<"s", "/", "b">>
Plused == <<"s", "+", "b">>

Catalog == <<Plain, Scoped, Plused, Plain, Scoped, Plused>>

\* name.replace(/\//g, "+")
safeName(pkg) == [c \in DOMAIN pkg |-> IF pkg[c] = "/" THEN "+" ELSE pkg[c]]

Min(a, b) == IF a <= b THEN a ELSE b

Range(f) == {f[x] : x \in DOMAIN f}

\* the sequence s without its first occurrence of x: indexOf + splice(i, 1)
RECURSIVE RemoveFirst(_, _)
RemoveFirst(s, x) ==
    IF s = <<>> THEN <<>>
    ELSE IF Head(s) = x THEN Tail(s)
    ELSE <<Head(s)>> \o RemoveFirst(Tail(s), x)

ListsUpTo(n) == {SubSeq(Catalog, 1, k) : k \in 0..n}
JobIds == 1..Len(items)

----------------------------------------------------------------------------
(* Fetch Pipeline: the value a job's promise settles with *)

ErrorKinds == {"META_ERROR", "NO_VERSION_BEFORE_CUTOFF",
               "NO_TARBALL_FOR_SELECTED_VERSION", "DOWNLOAD_FAILED",
               "EXTRACT_FAILED"}

Unknown == <<"u", "n", "k", "n", "o", "w", "n">>

NoRes == [st |-> "pending", ok |-> FALSE, pkg |-> <<>>, error |-> "none"]

\* return { ok: true, pkg: pkgName, version: selected, dir: pkgOutBase }
Success(pkg) == [st |-> "fulfilled", ok |-> TRUE, pkg |-> pkg, error |-> "none"]

\* catch (err) { return { ok: false, pkg: pkgName, error: err.message } }
Failure(pkg, err) ==
    [st |-> "fulfilled", ok |-> FALSE, pkg |-> pkg, error |-> err]

\* a backoff that does not grow with the attempt
BackoffFixed(attempt) == 1000

\* await new Promise((r) => setTimeout(r, 1000 * attempt)): the timer's delay
BackoffMs(attempt) == 1000 * attempt

\* phase: the operation the job is awaiting; attempt: the loop variable of the
\* download loop; wait: the delay of the pending backoff timer (ms), else 0
\* version: the version processPackage selected ("" before and without one)
QueuedJob == [phase |-> "queued", attempt |-> 0, wait |-> 0, version |-> "",
              res |-> NoRes]

\* processPackage up to its first await: the metadata request is sent
StartJob == [phase |-> "meta", attempt |-> 0, wait |-> 0, version |-> "",
             res |-> NoRes]

NoRace == [on |-> {}, val |-> NoRes]

\* the job's promise p settles with r; its reactions have not run yet
Settle(j, r) ==
    jobs' = [jobs EXCEPT ![j] = [phase |-> "settled", attempt |-> 0,
                                 wait |-> 0, version |-> jobs[j].version,
                                 res |-> r]]

Advance(j, ph, att) ==
    jobs' = [jobs EXCEPT ![j] =
                [phase |-> ph, attempt |-> att,
                 wait |-> IF ph = "backoff" THEN BackoffMs(att) ELSE 0,
                 version |-> jobs[j].version, res |-> NoRes]]

InFlight == {j \in JobIds : jobs[j].phase \notin {"queued", "settled", "finalized"}}

----------------------------------------------------------------------------
(* runQueue *)

\* function enqueueNext(): takes items[idx++], starts its job, pushes it on active
EnqueueNext(st) ==
    IF st.idx >= Len(items) THEN st
    ELSE [idx |-> st.idx + 1,
          active |-> Append(st.active, st.idx + 1),
          jobs |-> [st.jobs EXCEPT ![st.idx + 1] = StartJob]]

RECURSIVE EnqueueTimes(_, _)
EnqueueTimes(st, n) ==
    IF n <= 0 THEN st ELSE EnqueueTimes(EnqueueNext(st), n - 1)

\* kick-off without the limit
InitialDispatchAll == Len(items)

\* for (let i = 0; i < Math.min(concurrency, items.length); i++) enqueueNext();
InitialDispatch == Min(concurrency, Len(items))

\* while (idx < items.length || active.length > 0) { if (active.length === 0) break;
LoopContinues(st) ==
    /\ st.idx < Len(items) \/ Len(st.active) > 0
    /\ Len(st.active) # 0

\* the top of the dispatcher loop: await Promise.race(active), or leave the loop
\* for Promise.allSettled(active)
LoopHead(st) ==
    /\ idx' = st.idx
    /\ active' = st.active
    /\ jobs' = st.jobs
    /\ IF LoopContinues(st)
       THEN /\ race' = [on |-> Range(st.active), val |-> NoRes]
            /\ mainPc' = "await"
       ELSE /\ race' = NoRace
            /\ mainPc' = "allSettled"

\* const results = await runQueue(lines, processPackage, CONCURRENCY): the call
RunQueueStart ==
    /\ mainPc = "start"
    /\ LoopHead(EnqueueTimes([idx |-> idx, active |-> active, jobs |-> jobs],
                             InitialDispatch))
    /\ UNCHANGED <<items, concurrency, extracted, preExisting, results, ledger>>
    /\ UNCHANGED nonFetchVars

\* p.finally(() => { const i = active.indexOf(p); if (i >= 0) active.splice(i, 1); })
\* followed by the reaction Promise.race registered on p, which settles the race
\* when it is the first one to run.
Finally(j) ==
    /\ mainPc # "crashed"
    /\ jobs[j].phase = "settled"
    /\ jobs' = [jobs EXCEPT ![j].phase = "finalized"]
    /\ active' = RemoveFirst(active, j)
    /\ race' = IF j \in race.on /\ race.val = NoRes
               THEN [race EXCEPT !.val = jobs[j].res]
               ELSE race
    /\ UNCHANGED <<items, concurrency, extracted, preExisting, idx, results,
                   ledger, mainPc>>
    /\ UNCHANGED nonFetchVars

\* the continuation of `await Promise.race(active)`: push the value (or the
\* "unknown" failure of the catch branch), enqueueNext(), and loop
Resume ==
    /\ mainPc = "await"
    /\ race.val # NoRes
    /\ results' = Append(results,
                         IF race.val.st = "fulfilled" THEN race.val
                         ELSE Failure(Unknown, race.val.error))
    /\ LoopHead(EnqueueNext([idx |-> idx, active |-> active, jobs |-> jobs]))
    /\ UNCHANGED <<items, concurrency, extracted, preExisting, ledger>>
    /\ UNCHANGED nonFetchVars

\* const remaining = await Promise.allSettled(active); ... return results
AllSettled ==
    /\ mainPc = "allSettled"
    /\ \A a \in DOMAIN active : jobs[active[a]].phase \in {"settled", "finalized"}
    /\ results' = results \o
          [a \in DOMAIN active |->
              IF jobs[active[a]].res.st = "fulfilled" THEN jobs[active[a]].res
              ELSE Failure(Unknown, jobs[active[a]].res.error)]
    /\ mainPc' = "returned"
    /\ UNCHANGED <<items, concurrency, extracted, preExisting, idx, active, jobs,
                   race, ledger>>
    /\ UNCHANGED nonFetchVars

IsOk(r) == r.ok
IsFailed(r) == ~r.ok

\* results.filter(r => r.ok) / filter(r => !r.ok), the two writeFile calls and
\* the "Done. success: .., failed: .." tally
WriteLedgers ==
    /\ mainPc = "returned"
    /\ ledger' = [written |-> TRUE,
                  success |-> SelectSeq(results, IsOk),
                  failed |-> SelectSeq(results, IsFailed)]
    /\ mainPc' = "done"
    /\ UNCHANGED <<items, concurrency, extracted, preExisting, idx, active, jobs,
                   race, results>>
    /\ UNCHANGED nonFetchVars

----------------------------------------------------------------------------
(* processPackage: the registry metadata and the version selection *)

VersionNames == <<"1.0.0", "1.1.0", "2.0.0", "3.0.0", "4.0.0">>

\* Object.entries(meta.time) of a document with n versions published on the
\* days tm[1..n]: the registry's two bookkeeping keys, then the versions
TimeEntries(n, tm) ==
    << <<"modified", MaxTime>>, <<"created", 1>> >> \o
    [k \in 1..n |-> <<VersionNames[k], tm[k]>>]

\* A metadata document: `time` as the list of its entries, and the versions
\* whose meta.versions[v].dist.tarball is present (at most one lacks it)
MetaDocs ==
    UNION { UNION { { [time |-> TimeEntries(n, tm),
                       tarballs |-> {VersionNames[k] : k \in 1..n} \ miss] :
                         miss \in {{}} \cup {{VersionNames[k]} : k \in 1..n} } :
                     tm \in [1..n -> 1..MaxTime] } :
             n \in 0..MaxVersions }

\* new Date(t): the time value (ms) of the date string of day t
DateOf(t) == t * 86400000

\* .filter(([ver]) => ver !== "created" && ver !== "modified")
IsVersionKey(entry) == entry[1] # "created" /\ entry[1] # "modified"

\* a filter that lets every version through
NoCutoff(time, cutoff) == TRUE

\* .filter(({ time }) => time <= cutoffDate)
NotAfterCutoff(time, cutoff) == time <= cutoff

\* the three chained calls on Object.entries(timeMap)
VersionEntries(meta, cutoff) ==
    LET Dated(entry) == [ver |-> entry[1], time |-> DateOf(entry[2])]
        keys == SelectSeq(meta.time, IsVersionKey)
        dated == [k \in DOMAIN keys |-> Dated(keys[k])]
        Kept(e) == NotAfterCutoff(e.time, cutoff)
    IN  SelectSeq(dated, Kept)

\* e put behind the entries of the sorted list that are not later than it
RECURSIVE InsertByTime(_, _)
InsertByTime(sorted, e) ==
    IF sorted = <<>> THEN <<e>>
    ELSE IF sorted[Len(sorted)].time - e.time <= 0 THEN Append(sorted, e)
    ELSE Append(InsertByTime(SubSeq(sorted, 1, Len(sorted) - 1), e),
                sorted[Len(sorted)])

\* versionEntries.sort((a, b) => a.time - b.time): ascending and stable
RECURSIVE SortByTime(_)
SortByTime(entries) ==
    IF entries = <<>> THEN <<>>
    ELSE InsertByTime(SortByTime(SubSeq(entries, 1, Len(entries) - 1)),
                      entries[Len(entries)])

\* the selection without the look-up of the tarball reference
SelectVersionUnchecked(meta, cutoff) ==
    LET entries == SortByTime(VersionEntries(meta, cutoff))
    IN  IF Len(entries) = 0
        THEN [out |-> "NO_VERSION_BEFORE_CUTOFF", version |-> ""]
        ELSE [out |-> "ok", version |-> entries[Len(entries)].ver]

\* lines 94-111: the selected version, or the error that is thrown
SelectVersion(meta, cutoff) ==
    LET entries == SortByTime(VersionEntries(meta, cutoff))
        selected == entries[Len(entries)].ver
    IN  IF Len(entries) = 0
        THEN [out |-> "NO_VERSION_BEFORE_CUTOFF", version |-> ""]
        ELSE IF selected \notin meta.tarballs
        THEN [out |-> "NO_TARBALL_FOR_SELECTED_VERSION", version |-> ""]
        ELSE [out |-> "ok", version |-> selected]

NoMeta == [time |-> <<>>, tarballs |-> {"-"}]   \* fetchJSON rejected

----------------------------------------------------------------------------
(* processPackage: one action per awaited operation *)

jobFrame == <<items, concurrency, preExisting, idx, active, race, results,
              ledger, mainPc, nonFetchVars>>

MetaOutcomes == {"ok", "META_ERROR", "NO_VERSION_BEFORE_CUTOFF",
                 "NO_TARBALL_FOR_SELECTED_VERSION"}

\* await fetchJSON(metaUrl) ends; the version is selected and the tarball
\* reference looked up; then fsp.mkdir(pkgOutBase) is called
MetaDone(j) ==
    /\ mainPc # "crashed"
    /\ jobs[j].phase = "meta"
    /\ \E meta \in served \cup {NoMeta} :
          LET sel == IF meta = NoMeta
                     THEN [out |-> "META_ERROR", version |-> ""]
                     ELSE SelectVersion(meta, cutoffDate)
          IN  /\ sel.out \in MetaOutcomes
              /\ IF sel.out = "ok"
                 THEN jobs' = [jobs EXCEPT ![j] =
                                 [StartJob EXCEPT !.phase = "mkdir",
                                                  !.version = sel.version]]
                 ELSE Settle(j, Failure(items[j], sel.out))
    /\ UNCHANGED <<extracted>>
    /\ UNCHANGED jobFrame

\* await fsp.mkdir(pkgOutBase, { recursive: true }) ends; first downloadFile call
MkdirDone(j) ==
    /\ mainPc # "crashed"
    /\ jobs[j].phase = "mkdir"
    /\ Advance(j, "download", 1)
    /\ UNCHANGED <<extracted>>
    /\ UNCHANGED jobFrame

\* downloadFile settles: file "finish" (resolve), a status other than 200 or a
\* request "error" (reject).  A rejected attempt is retried after a backoff
\* until MAX_DL_TRIES attempts were made.
DownloadDone(j) ==
    /\ mainPc # "crashed"
    /\ jobs[j].phase = "download"
    /\ \E out \in {"finish", "http_status", "request_error"} :
          IF out = "finish" THEN Advance(j, "extract", jobs[j].attempt)
          ELSE IF jobs[j].attempt < MAX_DL_TRIES
               THEN Advance(j, "backoff", jobs[j].attempt)
               ELSE Settle(j, Failure(items[j], "DOWNLOAD_FAILED"))
    /\ UNCHANGED <<extracted>>
    /\ UNCHANGED jobFrame

\* The response was accepted (status 200) and piped into the file, and then the
\* response stream breaks off before its end.  downloadFile listens for "error"
\* on the request only: nothing calls resolve or reject any more.
DownloadStall(j) ==
    /\ mainPc # "crashed"
    /\ jobs[j].phase = "download"
    /\ Advance(j, "hung", jobs[j].attempt)
    /\ UNCHANGED <<extracted>>
    /\ UNCHANGED jobFrame

\* The write stream `file` of downloadFile emits "error" (the file cannot be
\* opened or written: disk full, too many open files).  No listener is attached
\* to it, so the event is thrown as an uncaught exception and the process ends.
DownloadCrash(j) ==
    /\ mainPc # "crashed"
    /\ jobs[j].phase = "download"
    /\ mainPc' = "crashed"
    /\ UNCHANGED <<items, concurrency, extracted, preExisting, idx, active, jobs,
                   race, results, ledger>>
    /\ UNCHANGED nonFetchVars

\* setTimeout(r, 1000 * attempt) fires; the loop makes the next attempt
BackoffDone(j) ==
    /\ mainPc # "crashed"
    /\ jobs[j].phase = "backoff"
    /\ Advance(j, "download", jobs[j].attempt + 1)
    /\ UNCHANGED <<extracted>>
    /\ UNCHANGED jobFrame

\* await execAsync(`tar -xzf ...`) ends
ExtractDone(j) ==
    /\ mainPc # "crashed"
    /\ jobs[j].phase = "extract"
    /\ \/ /\ extracted' = extracted \cup {safeName(items[j])}
          /\ Settle(j, Success(items[j]))
       \/ /\ Settle(j, Failure(items[j], "EXTRACT_FAILED"))
          /\ UNCHANGED extracted
    /\ UNCHANGED jobFrame

----------------------------------------------------------------------------

\* QueueSpec: `await worker(item)` of enqueueNext's wrapper ends; the whole of
\* processPackage is seen as one step that returns a success or a failure object
WorkerSettles(j) ==
    /\ mainPc # "crashed"
    /\ jobs[j].phase = "meta"
    /\ \E r \in {Success(items[j]), Failure(items[j], "DOWNLOAD_FAILED")} :
          Settle(j, r)
    /\ UNCHANGED <<extracted>>
    /\ UNCHANGED jobFrame

----------------------------------------------------------------------------
(* Sandbox Executor: files of the output directory *)

SafeNamesOf(list) == {safeName(list[k]) : k \in DOMAIN list}
SafeUniverse == SafeNamesOf(Catalog)

NoFile == [exists |-> FALSE, complete |-> FALSE, pkg |-> <<>>,
           domains |-> <<>>, vt |-> {}, timestamp |-> 0]

\* the file as open(path, "w") leaves it: created or truncated, no content yet
Truncated == [exists |-> TRUE, complete |-> FALSE, pkg |-> <<>>,
              domains |-> <<>>, vt |-> {}, timestamp |-> 0]

\* a record that names the package by its file name
RecordSafeName(pkg, domains, t) ==
    [exists |-> TRUE, complete |-> TRUE, pkg |-> safeName(pkg),
     domains |-> domains, vt |-> {}, timestamp |-> t]

\* JSON.stringify({ pkg, domains, vt: {}, timestamp }, null, 2)
Record(pkg, domains, t) ==
    [exists |-> TRUE, complete |-> TRUE, pkg |-> pkg, domains |-> domains,
     vt |-> {}, timestamp |-> t]

\* Lines of <safe>.txt: the two tshark fields (dns.qry.name, tls server name),
\* "" for a blank field
CaptureOutputs == { <<>>,
                    << <<"x.io", "">>, <<"", "y.io">>, <<"x.io", "y.io">> >> }

NoTxt == << <<"-", "-">> >>   \* stands for "the file does not exist"

\* (x) => x.trim(): " " stands for a field of white space only
Trim(field) == IF field = " " THEN "" ELSE field

\* filter(Boolean) keeps the strings that are not empty
NonEmpty(field) == field # ""

\* line.split("\t").map((x) => x.trim()).filter(Boolean)
LineParts(line) == SelectSeq([k \in DOMAIN line |-> Trim(line[k])], NonEmpty)

\* a reading that prefers the server name of the TLS field
LineNameTlsFirst(line) ==
    IF Trim(line[2]) # "" THEN Trim(line[2]) ELSE Trim(line[1])

\* const name = parts[0] || parts[1]; "" stands for undefined
LineName(line) ==
    LET parts == LineParts(line)
    IN  IF Len(parts) >= 1 /\ parts[1] # "" THEN parts[1]
        ELSE IF Len(parts) >= 2 THEN parts[2]
        ELSE ""

\* the loop over the lines with the `seen` set
RECURSIVE ParseDomains(_, _)
ParseDomains(lines, acc) ==
    IF lines = <<>> THEN acc
    ELSE LET name == LineName(Head(lines))
         IN ParseDomains(Tail(lines),
                         IF name # "" /\ name \notin Range(acc)
                         THEN Append(acc, name) ELSE acc)

\* let domains = []; if (fs.existsSync(outTxt)) { ... }
DomainsOf(txt) == IF txt = NoTxt THEN <<>> ELSE ParseDomains(txt, <<>>)

Safe == safeName(pkgs[i])

execFrame == <<pkgs, nonExecVars>>

SkipNever(safe) == FALSE

\* if (fs.existsSync(outJson)) { console.log(SKIP existing); continue; }
SkipExisting(safe) == outJson[safe].exists

\* the for-loop header and the skip test; "RUN" is printed for a package that
\* is not skipped, "Done." after the last one
Iterate ==
    /\ execPc = "loop"
    /\ IF i > Len(pkgs)
       THEN /\ execPc' = "done"
            /\ UNCHANGED <<i, log>>
       ELSE IF SkipExisting(Safe)
       THEN /\ log' = [log EXCEPT ![i] = @ \cup {"SKIP"}]
            /\ i' = i + 1
            /\ UNCHANGED execPc
       ELSE /\ log' = [log EXCEPT ![i] = @ \cup {"RUN"}]
            /\ execPc' = "launch"
            /\ UNCHANGED i
    /\ UNCHANGED <<outJson, outTxt, markers, ctr, capture, install, dockerRuns,
                   now, starts>>
    /\ UNCHANGED execFrame

AfterSpawnErrorAbort == "done"

\* if (r.error) { console.error(`docker run failed ...`); }  -- and go on
AfterSpawnError == "collect"

\* spawnSync("docker", dockerArgs) does not get the runtime started: r.error
LaunchFails ==
    /\ execPc = "launch"
    /\ dockerRuns' = [dockerRuns EXCEPT ![Safe] = @ + 1]
    /\ log' = [log EXCEPT ![i] = @ \cup {"FAILED"}]
    /\ execPc' = AfterSpawnError
    /\ UNCHANGED <<i, outJson, outTxt, markers, ctr, capture, install, now, starts>>
    /\ UNCHANGED execFrame

\* the container is started without waiting for it (spawn for spawnSync)
LaunchAsync ==
    /\ execPc = "launch"
    /\ dockerRuns' = [dockerRuns EXCEPT ![Safe] = @ + 1]
    /\ execPc' = "collect"
    /\ ctr' = "setup"
    /\ UNCHANGED <<i, outJson, outTxt, markers, capture, install, log, now, starts>>
    /\ UNCHANGED execFrame

\* spawnSync("docker", dockerArgs): the container starts, the call blocks
Launch ==
    /\ execPc = "launch"
    /\ dockerRuns' = [dockerRuns EXCEPT ![Safe] = @ + 1]
    /\ execPc' = "docker"
    /\ ctr' = "setup"
    /\ UNCHANGED <<i, outJson, outTxt, markers, capture, install, log, now, starts>>
    /\ UNCHANGED execFrame

\* script, first part: apt-get, mkdir, `date > start.txt`, `tshark -a duration:CAP &`,
\* sleep, nslookup, npm init, and `npm i <pkg>` is started in the foreground
ContainerSetup ==
    /\ execPc = "docker" /\ ctr = "setup"
    /\ markers' = [markers EXCEPT ![Safe] = @ \cup {"start"}]
    /\ capture' = "running"
    /\ install' = "running"
    /\ ctr' = "install"
    /\ UNCHANGED <<i, execPc, outJson, outTxt, log, dockerRuns, now, starts>>
    /\ UNCHANGED execFrame

\* tshark stops by itself when the capture duration is over
CaptureEnds ==
    /\ execPc = "docker" /\ capture = "running"
    /\ capture' = "ended"
    /\ UNCHANGED <<i, execPc, outJson, outTxt, markers, ctr, install, log,
                   dockerRuns, now, starts>>
    /\ UNCHANGED execFrame

\* `npm i ... || true` returns (the install worked or failed); next: wait $TSHARK_PID
InstallEnds ==
    /\ execPc = "docker" /\ ctr = "install" /\ install = "running"
    /\ install' \in {"succeeded", "failed"}
    /\ ctr' = "wait"
    /\ UNCHANGED <<i, execPc, outJson, outTxt, markers, capture, log, dockerRuns,
                   now, starts>>
    /\ UNCHANGED execFrame

\* the install command never terminates (an install script that blocks)
InstallHangs ==
    /\ execPc = "docker" /\ ctr = "install" /\ install = "running"
    /\ install' = "hung"
    /\ UNCHANGED <<i, execPc, outJson, outTxt, markers, ctr, capture, log,
                   dockerRuns, now, starts>>
    /\ UNCHANGED execFrame

\* the script goes on without waiting for the capture
CaptureNotAwaited == TRUE

\* wait $TSHARK_PID: returns when the background tshark has terminated
CaptureAwaited == capture = "ended"

\* `wait $TSHARK_PID` returns, `date > end.txt`, `tshark -r ... > <safe>.txt`; the
\* script ends, the container exits and spawnSync returns
ContainerFinish ==
    /\ execPc = "docker" /\ ctr = "wait" /\ CaptureAwaited
    /\ markers' = [markers EXCEPT ![Safe] = @ \cup {"end"}]
    /\ \E lines \in CaptureOutputs : outTxt' = [outTxt EXCEPT ![Safe] = lines]
    /\ ctr' = "none"
    /\ capture' = "none"
    /\ execPc' = "collect"
    /\ UNCHANGED <<i, outJson, install, log, dockerRuns, now, starts>>
    /\ UNCHANGED execFrame

\* the domains are read from <safe>.txt, the record is built, and
\* fs.writeFileSync(outJson, ...) opens the file for writing
WriteOpen ==
    /\ execPc = "collect"
    /\ outJson' = [outJson EXCEPT ![Safe] = Truncated]
    /\ execPc' = "writing"
    /\ UNCHANGED <<i, outTxt, markers, ctr, capture, install, log, dockerRuns,
                   now, starts>>
    /\ UNCHANGED execFrame

\* fs.writeFileSync writes the text and closes the file; "WROTE" is printed
WriteData ==
    /\ execPc = "writing"
    /\ outJson' = [outJson EXCEPT ![Safe] =
                      Record(pkgs[i], DomainsOf(outTxt[Safe]), now)]
    /\ now' = now + 1
    /\ log' = [log EXCEPT ![i] = @ \cup {"WROTE"}]
    /\ execPc' = "pause"
    /\ UNCHANGED <<i, outTxt, markers, ctr, capture, install, dockerRuns, starts>>
    /\ UNCHANGED execFrame

\* Atomics.wait(..., 500) and the loop's i++
Pause ==
    /\ execPc = "pause"
    /\ i' = i + 1
    /\ execPc' = "loop"
    /\ UNCHANGED <<outJson, outTxt, markers, ctr, capture, install, log,
                   dockerRuns, now, starts>>
    /\ UNCHANGED execFrame

\* the executor process is killed (with its container); the files stay
Kill ==
    /\ execPc \notin {"done", "dead"}
    /\ execPc' = "dead"
    /\ ctr' = "none"
    /\ capture' = "none"
    /\ install' = "none"
    /\ UNCHANGED <<i, outJson, outTxt, markers, log, dockerRuns, now, starts>>
    /\ UNCHANGED execFrame

\* the executor is started again on the same package list and output directory
Restart ==
    /\ execPc \in {"done", "dead"}
    /\ starts < MaxStarts
    /\ starts' = starts + 1
    /\ i' = 1
    /\ log' = [k \in DOMAIN pkgs |-> {}]
    /\ execPc' = "loop"
    /\ UNCHANGED <<outJson, outTxt, markers, ctr, capture, install, dockerRuns, now>>
    /\ UNCHANGED execFrame

----------------------------------------------------------------------------
(* Sandbox Executor: lines 95-111 applied to a <safe>.txt file *)

FieldValues == {"", " ", "x.io", "y.io"}

RECURSIVE TxtFiles(_)
TxtFiles(n) ==
    IF n = 0 THEN {<<>>}
    ELSE LET shorter == TxtFiles(n - 1)
         IN  shorter \cup
             {Append(txt, <<dns, tls>>) :
                 txt \in shorter, dns \in FieldValues, tls \in FieldValues}

Unread == <<"(unread)">>

\* let domains = []; if (fs.existsSync(outTxt)) { ... for (const line of lines) ... }
ReadDomains ==
    /\ readDomains = Unread
    /\ readDomains' = DomainsOf(readTxt)
    /\ UNCHANGED readTxt
    /\ UNCHANGED nonParseVars

----------------------------------------------------------------------------
(* Reputation Enricher: the handler of GET /scan/c2 *)

CapturedNames == <<"d1", "", "d2", "d1", "d3", "d4", "d5", "d6", "d7", "d8">>

\* Array.from(new Set(domains)): the first occurrences, in their order
RECURSIVE Dedupe(_, _)
Dedupe(names, acc) ==
    IF names = <<>> THEN acc
    ELSE Dedupe(Tail(names),
                IF Head(names) \in Range(acc) THEN acc
                ELSE Append(acc, Head(names)))

\* stdout.split("\n").map((d) => d.trim()).filter((d) => d), then the Set
DomainsIn(out) ==
    Dedupe(SelectSeq([k \in DOMAIN out |-> Trim(out[k])], NonEmpty), <<>>)

\* domains.slice(0, maxQueries)
Slice(domains) == SubSeq(domains, 1, Min(maxQueries, Len(domains)))

NoData == [message |-> "", domains |-> <<>>]
NoResult == [status |-> "pending"]

\* return { domain, reputation: response.data }
QueryOk(domain) ==
    [status |-> "fulfilled",
     value |-> [domain |-> domain, reputation |-> "data", error |-> "none"]]

\* a catch block that throws the error on
QueryRethrow(domain, message) ==
    [status |-> "rejected", reason |-> [message |-> message]]

\* catch (error) { ...; return { domain, error: error.message }; }
QueryCatch(domain, message) ==
    [status |-> "fulfilled",
     value |-> [domain |-> domain, reputation |-> "none", error |-> message]]

\* results.map((result) => result.status === "fulfilled" ? result.value : {..})
FinalResult(result) ==
    IF result.status = "fulfilled" THEN result.value
    ELSE [domain |-> "unknown", reputation |-> "none",
          error |-> result.reason.message]

\* queryVirusTotal(domain) up to its first await: the timer is set
StartLookup(domain) ==
    [phase |-> "delay", due |-> clock + QueryDelayMs, sentAt |-> 0,
     wire |-> "none", result |-> NoResult]

\* await execAsync(tshark ...) ends; the names are parsed and cut to the batch
\* and selectedDomains.map(queryVirusTotal) starts every lookup
CaptureDone ==
    /\ c2Pc = "capture"
    /\ IF Len(DomainsIn(stdout)) = 0
       THEN /\ c2Data' = [message |-> "No DNS queries captured",
                          domains |-> <<>>]
            /\ c2Pc' = "responded"
            /\ UNCHANGED <<selectedDomains, lookups>>
       ELSE /\ selectedDomains' = Slice(DomainsIn(stdout))
            /\ lookups' = [k \in DOMAIN selectedDomains' |->
                              StartLookup(selectedDomains'[k])]
            /\ c2Pc' = "querying"
            /\ UNCHANGED c2Data
    /\ UNCHANGED <<stdout, clock>>
    /\ UNCHANGED nonEnrichVars

\* time passes; a timer that is due is run before more time passes
Tick ==
    /\ c2Pc = "querying"
    /\ clock < MaxTicks * QueryDelayMs
    /\ \A k \in DOMAIN lookups :
          lookups[k].phase = "delay" => clock < lookups[k].due
    /\ clock' = clock + QueryDelayMs
    /\ UNCHANGED <<stdout, selectedDomains, lookups, c2Pc, c2Data>>
    /\ UNCHANGED nonEnrichVars

\* the timer of lookup k fires (timers of one delay fire in the order they
\* were set) and axios.get sends the request
TimerFires(k) ==
    /\ c2Pc = "querying"
    /\ lookups[k].phase = "delay"
    /\ clock >= lookups[k].due
    /\ \A h \in 1..(k - 1) : lookups[h].phase # "delay"
    /\ lookups' = [lookups EXCEPT ![k].phase = "request", ![k].sentAt = clock]
    /\ UNCHANGED <<stdout, selectedDomains, clock, c2Pc, c2Data>>
    /\ UNCHANGED nonEnrichVars

\* axios.get of lookup k settles: a response, or an error (status, network)
LookupSettles(k) ==
    /\ c2Pc = "querying"
    /\ lookups[k].phase = "request"
    /\ \E wire \in {"ok", "error"} :
          lookups' = [lookups EXCEPT
                         ![k].phase = "done",
                         ![k].wire = wire,
                         ![k].result =
                             IF wire = "ok" THEN QueryOk(selectedDomains[k])
                             ELSE QueryCatch(selectedDomains[k], "failed")]
    /\ UNCHANGED <<stdout, selectedDomains, clock, c2Pc, c2Data>>
    /\ UNCHANGED nonEnrichVars

\* the continuation of await Promise.allSettled(..): finalResults and c2Data
\* are built and saveScanResult is called
Collect ==
    /\ c2Pc = "querying"
    /\ \A k \in DOMAIN lookups : lookups[k].phase = "done"
    /\ c2Data' = [message |-> "",
                  domains |-> [k \in DOMAIN lookups |->
                                  FinalResult(lookups[k].result)]]
    /\ c2Pc' = "saving"
    /\ UNCHANGED <<stdout, selectedDomains, lookups, clock>>
    /\ UNCHANGED nonEnrichVars

\* await saveScanResult(..) ends (its own errors are caught) and res.json(c2Data)
Respond ==
    /\ c2Pc = "saving"
    /\ c2Pc' = "responded"
    /\ UNCHANGED <<stdout, selectedDomains, lookups, clock, c2Data>>
    /\ UNCHANGED nonEnrichVars

----------------------------------------------------------------------------
(* Sampler: the generator of makeRNG on 32-bit words.  A word is the pair   *)
(* <<high half, low half>> of its 16-bit halves.                           *)

Half == 65536

\* seed >>> 0: the 32-bit pattern of a number, negative ones in two's complement
ToUint32(n) ==
    IF n >= 0 THEN <<n \div Half, n % Half>>
    ELSE LET low31 == (n + 2147483647) + 1
         IN  <<32768 + low31 \div Half, low31 % Half>>

\* s ^= s << 13; s ^= s >>> 17; s ^= s << 5;
Xorshift(w) ==
    LET RECURSIVE Pow2(_)
        Pow2(k) == IF k = 0 THEN 1 ELSE 2 * Pow2(k - 1)
        \* the bitwise ^ of two halves
        RECURSIVE Xor16(_, _)
        Xor16(x, y) ==
            IF x = 0 THEN y
            ELSE IF y = 0 THEN x
            ELSE 2 * Xor16(x \div 2, y \div 2) + (((x % 2) + (y % 2)) % 2)
        XorWord(u, v) == <<Xor16(u[1], v[1]), Xor16(u[2], v[2])>>
        \* v << k, cut to 32 bits (k < 16)
        ShiftLeft(v, k) ==
            <<(v[1] * Pow2(k) + (v[2] * Pow2(k)) \div Half) % Half,
              (v[2] * Pow2(k)) % Half>>
        \* v >>> k (k >= 16)
        ShiftRight(v, k) == <<0, v[1] \div Pow2(k - 16)>>
        a == XorWord(w, ShiftLeft(w, 13))
        b == XorWord(a, ShiftRight(a, 17))
    IN  XorWord(b, ShiftLeft(b, 5))

\* Math.floor(((s >>> 0) / 0xffffffff) * m): with s * m = hi * 2^32 + low and
\* 2^32 = 0xffffffff + 1 the quotient is hi, or hi + 1 when hi + low reaches
\* 0xffffffff
DrawIndex(w, m) ==
    LET lowProduct == w[2] * m
        highProduct == w[1] * m + lowProduct \div Half
        hi == highProduct \div Half
    IN  IF highProduct % Half = Half - 1 /\ lowProduct % Half >= Half - 1 - hi
        THEN hi + 1
        ELSE hi

\* a generator seeded with the time of the run
RngSeedFromClock(fixed, time) == time

\* const rng = makeRNG(20250801): the seed is the one written in the script
RngSeed(fixed, time) == fixed

\* all[i] = all[j] without the assignment in the other direction
SwapOneWay(list, a, b) ==
    IF b < Len(list) THEN [list EXCEPT ![a + 1] = list[b + 1]] ELSE list

\* [all[i], all[j]] = [all[j], all[i]] with 0-based i, j; an index at the
\* length reads undefined and its assignment lengthens the array
Swap(list, a, b) ==
    IF b < Len(list)
    THEN [list EXCEPT ![a + 1] = list[b + 1], ![b + 1] = list[a + 1]]
    ELSE Append([list EXCEPT ![a + 1] = "(undefined)"], list[a + 1])

\* all.slice(0, sampleSize)
SliceTo(list, k) == SubSeq(list, 1, Min(k, Len(list)))

NewRun == [pc |-> "start", all |-> <<>>, s |-> <<0, 0>>, pos |-> 0,
           draws |-> 0, last |-> <<0, 0>>, sample |-> <<>>]

\* lines 17-32: the generator is made, the file is read into `all`, and the
\* loop variable is set to all.length - 1
ReadInput(r) ==
    /\ runs[r].pc = "start"
    /\ LET names == SelectSeq([k \in DOMAIN fileLines |-> Trim(fileLines[k])],
                              NonEmpty)
       IN  runs' = [runs EXCEPT ![r] =
                      [NewRun EXCEPT !.pc = "shuffle",
                                     !.all = names,
                                     !.s = ToUint32(RngSeed(seed, r)),
                                     !.pos = Len(names) - 1]]
    /\ UNCHANGED <<fileLines, sampleSize, seed>>
    /\ UNCHANGED nonSampleVars

\* one pass of the loop of lines 34-37: j is drawn and all[i], all[j] swapped
ShuffleStep(r) ==
    /\ runs[r].pc = "shuffle"
    /\ runs[r].pos > 0
    /\ LET next == Xorshift(runs[r].s)
           j == DrawIndex(next, runs[r].pos + 1)
       IN  runs' = [runs EXCEPT ![r].s = next,
                                ![r].draws = @ + 1,
                                ![r].last = <<runs[r].pos, j>>,
                                ![r].all = Swap(@, runs[r].pos, j),
                                ![r].pos = @ - 1]
    /\ UNCHANGED <<fileLines, sampleSize, seed>>
    /\ UNCHANGED nonSampleVars

\* the loop ends; lines 39-41: the sample is cut and written to the output file
WriteSample(r) ==
    /\ runs[r].pc = "shuffle"
    /\ runs[r].pos <= 0
    /\ runs' = [runs EXCEPT ![r].pc = "done",
                            ![r].sample = SliceTo(runs[r].all, sampleSize)]
    /\ UNCHANGED <<fileLines, sampleSize, seed>>
    /\ UNCHANGED nonSampleVars

----------------------------------------------------------------------------
(* Heuristic Scanner: isObfuscated.  A text is a sequence of runs; the run *)
(* [chars |-> a, newlines |-> b, times |-> t] is t times a characters other *)
(* than "\n" followed by b characters "\n".                                 *)

RECURSIVE CodeLength(_)
\* code.length
CodeLength(text) ==
    IF text = <<>> THEN 0
    ELSE Head(text).times * (Head(text).chars + Head(text).newlines)
         + CodeLength(Tail(text))

RECURSIVE Newlines(_)
Newlines(text) ==
    IF text = <<>> THEN 0
    ELSE Head(text).times * Head(text).newlines + Newlines(Tail(text))

\* code.split("\n").length: one more piece than there are separators
SplitLength(text) == Newlines(text) + 1

\* the comparison with >= in place of >
isObfuscatedAtLeast(text) ==
    LET lines == SplitLength(text)
    IN  IF lines = 1 /\ CodeLength(text) > SingleLineLimit THEN TRUE
        ELSE CodeLength(text) >= AvgLineLimit * lines

\* avg = code.length / lines.length; avg > 200 on the quotient of two
\* integers is length > 200 * lines
isObfuscated(text) ==
    LET lines == SplitLength(text)
    IN  IF lines = 1 /\ CodeLength(text) > SingleLineLimit THEN TRUE
        ELSE CodeLength(text) > AvgLineLimit * lines

\* one call of isObfuscated on the text
Classify ==
    /\ Len(verdicts) < MaxCalls
    /\ verdicts' = Append(verdicts, isObfuscated(code))
    /\ UNCHANGED code
    /\ UNCHANGED nonClassifyVars

----------------------------------------------------------------------------
(* Server: the result store.  A request is a record whose pc field is the  *)
(* await its handler stands at.                                            *)

NoDoc == [id |-> 0, type |-> "", data |-> <<>>, timestamp |-> 0]

\* the request record with some fields replaced
With(req, changes) ==
    [f \in DOMAIN req |-> IF f \in DOMAIN changes THEN changes[f] ELSE req[f]]

serverFrame == <<tree, nonServerVars>>

\* MongoClient.connect(..).then: db = client.db(dbName)
Connects ==
    /\ db = "connecting"
    /\ db' = "connected"
    /\ UNCHANGED <<collection, date, requests>>
    /\ UNCHANGED serverFrame

\* MongoClient.connect(..).catch: the error is printed, db stays undefined
ConnectFails ==
    /\ db = "connecting"
    /\ db' = "failed"
    /\ UNCHANGED <<collection, date, requests>>
    /\ UNCHANGED serverFrame

\* time passes
DateTick ==
    /\ date < MaxDate
    /\ date' = date + 1
    /\ UNCHANGED <<db, collection, requests>>
    /\ UNCHANGED serverFrame

\* saveScanResult up to its await: if (!db) return; otherwise the document
\* { type, data, timestamp: new Date() } is handed to insertOne.  NoDoc stands
\* for the return without a document.
DocToInsert(state, type, data, t) ==
    IF state # "connected" THEN NoDoc
    ELSE [type |-> type, data |-> data, timestamp |-> t]

\* await saveScanResult(type, data), called by the handler of request q with
\* its result
SaveScanResult(q) ==
    /\ requests[q].pc = "save"
    /\ LET doc == DocToInsert(db, requests[q].type, requests[q].data, date)
       IN  requests' = [requests EXCEPT ![q] =
               IF doc = NoDoc THEN With(@, [pc |-> "respond"])
               ELSE With(@, [pc |-> "insert", doc |-> doc])]
    /\ UNCHANGED <<db, collection, date>>
    /\ UNCHANGED serverFrame

\* insertOne stores the document (with an _id of its own) and saveScanResult
\* returns
InsertOk(q) ==
    /\ requests[q].pc = "insert"
    /\ collection' = Append(collection,
                            [id |-> Len(collection) + 1,
                             type |-> requests[q].doc.type,
                             data |-> requests[q].doc.data,
                             timestamp |-> requests[q].doc.timestamp])
    /\ requests' = [requests EXCEPT ![q] = With(@, [pc |-> "respond"])]
    /\ UNCHANGED <<db, date>>
    /\ UNCHANGED serverFrame

\* insertOne rejects; saveScanResult prints the error and returns
InsertFails(q) ==
    /\ requests[q].pc = "insert"
    /\ requests' = [requests EXCEPT ![q] = With(@, [pc |-> "respond"])]
    /\ UNCHANGED <<db, collection, date>>
    /\ UNCHANGED serverFrame

\* res.json(result) after the await of saveScanResult
ScanRespond(q) ==
    /\ requests[q].pc = "respond"
    /\ requests' = [requests EXCEPT ![q] =
           With(@, [pc |-> "done",
                    response |-> [status |-> 200, body |-> requests[q].data]])]
    /\ UNCHANGED <<db, collection, date>>
    /\ UNCHANGED serverFrame

\* GET /scan/npm: npm audit and the advisory look-ups are over; either the
\* result is there and saveScanResult("npmScan", auditResults) is called, or
\* something threw and the handler answers 500
ScanWork(q) ==
    /\ requests[q].kind = "scan"
    /\ requests[q].pc = "start"
    /\ \/ requests' = [requests EXCEPT ![q] =
              With(@, [pc |-> "save", type |-> "npmScan",
                       data |-> <<"audit", q>>])]
       \/ requests' = [requests EXCEPT ![q] =
              With(@, [pc |-> "done",
                       response |-> [status |-> 500, body |-> <<>>]])]
    /\ UNCHANGED <<db, collection, date>>
    /\ UNCHANGED serverFrame

----------------------------------------------------------------------------
(* Server: GET /scan/obfuscation.  A directory entry is a record with the  *)
(* name (a sequence of characters), the kind the Dirent reports, the       *)
(* entries of a directory, the text of a file, and whether it can be read. *)
(* A path is the sequence of the names from the target directory down.     *)

NodeModules == <<"n", "o", "d", "e", "_", "m", "o", "d", "u", "l", "e", "s">>
PackageJson == <<"p", "a", "c", "k", "a", "g", "e", ".", "j", "s", "o", "n">>
PackageDir == <<"p", "a", "c", "k", "a", "g", "e">>

RECURSIVE NodeAt(_, _)
\* what a path below a directory leads to; the kind "none" stands for a
\* path that does not exist
NodeAt(dir, path) ==
    IF path = <<>> THEN dir
    ELSE IF \E k \in DOMAIN dir.entries : dir.entries[k].name = Head(path)
    THEN NodeAt(dir.entries[CHOOSE k \in DOMAIN dir.entries :
                                dir.entries[k].name = Head(path)], Tail(path))
    ELSE [name |-> <<>>, kind |-> "none", entries |-> <<>>, text |-> <<>>,
          readable |-> FALSE]

\* path.relative(realRoot, file) for a file below realRoot
Relative(realRoot, file) == SubSeq(file, Len(realRoot) + 1, Len(file))

\* no directory is passed over
SkipNoDir(name) == FALSE

\* if (e.name === "node_modules") continue;
SkipDir(name) == name = NodeModules

RECURSIVE collectJsFiles(_, _, _, _, _)
RECURSIVE WalkEntries(_, _, _, _, _, _, _)

\* for (const e of entries) { ... } for the entries from..to of the
\* directory `dir` whose path is `root`, in order: the first half of the
\* range, then the second half on what the first half left.  After a break
\* (or a rejected readdir) the remaining entries leave acc as it is.
WalkEntries(dir, from, to, root, files, curDepth, acc) ==
    LET \* name.endsWith(".js")
        EndsWithJs(name) ==
            /\ Len(name) >= 3
            /\ SubSeq(name, Len(name) - 2, Len(name)) = <<".", "j", "s">>
        \* one pass of the body of the loop, for entry k
        WalkEntry(k) ==
            IF acc.threw \/ Len(acc.files) >= files THEN acc
            ELSE LET e == dir.entries[k]
                     full == Append(root, e.name)
                 IN  IF e.kind = "dir"
                     THEN IF SkipDir(e.name) THEN acc
                          ELSE collectJsFiles(e, full, files, curDepth + 1, acc)
                     ELSE IF e.kind = "file" /\ EndsWithJs(e.name)
                     THEN [acc EXCEPT !.files = Append(@, full)]
                     ELSE acc
        mid == (from + to) \div 2
        half == WalkEntries(dir, from, mid, root, files, curDepth, acc)
    IN  IF from > to THEN acc
        ELSE IF from = to THEN WalkEntry(from)
        ELSE IF half.threw THEN half
        ELSE WalkEntries(dir, mid + 1, to, root, files, curDepth, half)

\* collectJsFiles(root, maxFiles, maxDepth = 4, curDepth, acc) on the
\* directory `dir` that the path `root` names.  acc.files is the array acc;
\* acc.threw tells that fs.readdir rejected, which ends the whole walk.
collectJsFiles(dir, root, files, curDepth, acc) ==
    IF curDepth > maxDepth \/ Len(acc.files) >= files THEN acc
    ELSE IF ~dir.readable THEN [acc EXCEPT !.threw = TRUE]
    ELSE WalkEntries(dir, 1, Len(dir.entries), root, files, curDepth, acc)

TargetDir == <<"t">>

\* the handler from the arrival of the request to the first await: package.json
\* is looked for (fsSync.existsSync) in the target directory and in its
\* directory `package`;
\* 400 if it is in neither, else the walk of realRoot is started
Locate(q) ==
    /\ requests[q].kind = "obfuscation"
    /\ requests[q].pc = "start"
    /\ requests' = [requests EXCEPT ![q] =
           IF NodeAt(tree, <<PackageJson>>).kind # "none"
           THEN With(@, [pc |-> "walk", realRoot |-> <<TargetDir>>])
           ELSE IF NodeAt(tree, <<PackageDir, PackageJson>>).kind # "none"
           THEN With(@, [pc |-> "walk", realRoot |-> <<TargetDir, PackageDir>>])
           ELSE With(@, [pc |-> "done",
                         response |-> [status |-> 400, body |-> <<>>]])]
    /\ UNCHANGED <<db, collection, date, tree>>
    /\ UNCHANGED nonServerVars

\* const payload = { dir: realRoot, fileCount: jsFiles.length, results }
Payload(realRoot, jsFiles, pushed) ==
    [dir |-> realRoot, fileCount |-> Len(jsFiles), results |-> pushed]

\* await collectJsFiles(realRoot) is over: the files are there (with none,
\* the payload is built at once and saveScanResult is called), or readdir
\* rejected: 500
Walked(q) ==
    /\ requests[q].pc = "walk"
    /\ LET realRoot == requests[q].realRoot
           walk == collectJsFiles(NodeAt(tree, Tail(realRoot)), realRoot,
                                  maxFiles, 0, [files |-> <<>>, threw |-> FALSE])
       IN  requests' = [requests EXCEPT ![q] =
              IF walk.threw
              THEN With(@, [pc |-> "done",
                            response |-> [status |-> 500, body |-> <<>>]])
              ELSE IF walk.files = <<>>
              THEN With(@, [pc |-> "save", type |-> "obfuscationScan",
                            data |-> Payload(realRoot, <<>>, <<>>)])
              ELSE With(@, [pc |-> "read", jsFiles |-> walk.files])]
    /\ UNCHANGED <<db, collection, date, tree>>
    /\ UNCHANGED nonServerVars

\* await fs.readFile(file) of the next file is over: its entry is pushed,
\* { file, obfuscated } or { file, error }; after the last file the payload is
\* built and saveScanResult is called
ReadFile(q) ==
    /\ requests[q].pc = "read"
    /\ LET k == Len(requests[q].results) + 1
           file == requests[q].jsFiles[k]
           node == NodeAt(tree, Tail(file))
           entry == IF node.readable
                    THEN [file |-> Relative(requests[q].realRoot, file),
                          obfuscated |-> isObfuscated(node.text)]
                    ELSE [file |-> Relative(requests[q].realRoot, file),
                          error |-> "EACCES"]
           pushed == Append(requests[q].results, entry)
       IN  requests' = [requests EXCEPT ![q] =
              IF k < Len(requests[q].jsFiles)
              THEN With(@, [results |-> pushed])
              ELSE With(@, [pc |-> "save", results |-> pushed,
                            type |-> "obfuscationScan",
                            data |-> Payload(requests[q].realRoot,
                                             requests[q].jsFiles, pushed)])]
    /\ UNCHANGED <<db, collection, date, tree>>
    /\ UNCHANGED nonServerVars

----------------------------------------------------------------------------
(* Server: GET /scan/score *)

\* a member the audit report does not have (metadata.vulnerabilities,
\* advisories)
Absent == <<"absent">>

RECURSIVE SumValues(_, _)
\* Object.values(counts).reduce((sum, count) => sum + count, 0)
SumValues(counts, keys) ==
    IF keys = {} THEN 0
    ELSE LET k == CHOOSE x \in keys : TRUE
         IN  counts[k] + SumValues(counts, keys \ {k})

\* lines 242-246
VulnerabilityCount(report) ==
    IF report.vulnerabilities = Absent THEN 0
    ELSE SumValues(report.vulnerabilities, DOMAIN report.vulnerabilities)

\* lines 248-255: the advisories of severity high or critical
HighRiskCount(report) ==
    LET IsHighRisk(severity) == severity \in {"high", "critical"}
    IN  IF report.advisories = Absent THEN 0
        ELSE Len(SelectSeq(report.advisories, IsHighRisk))

\* tsharkStdout.split("\n").filter((line) => line.trim() !== ""), then the
\* size of the Set of the lines
C2Count(out) == Cardinality({out[k] : k \in {m \in DOMAIN out : Trim(out[m]) # ""}})

\* every count with the weight of another
RiskScoreSwapped(vulnerabilityCount, c2Count, githubHighRiskCount) ==
    vulnerabilityCount * 2 + c2Count * 3 + githubHighRiskCount

\* vulnerabilityCount + c2Count * 2 + githubHighRiskCount * 3
RiskScore(vulnerabilityCount, c2Count, githubHighRiskCount) ==
    vulnerabilityCount + c2Count * 2 + githubHighRiskCount * 3

\* what JSON.parse(npmStdout) can give: counts per severity (or no
\* metadata.vulnerabilities) and advisories with their severity (or none)
AuditReports ==
    [vulnerabilities : [{"low", "high"} -> 0..MaxCount] \cup {Absent},
     advisories : UNION {[1..n -> {"low", "high", "critical"}]
                            : n \in 0..MaxAdvisories} \cup {Absent}]

\* what tshark can print: one queried name per line
DnsOutputs ==
    {SubSeq(<<"d1", "", "d2", "d1", " ", "d3", "d4">>, 1, n) : n \in 0..MaxDnsLines}

\* `npm audit --json` is over: the report is parsed and counted (lines
\* 240-255) and tshark is started, or execAsync rejected (npm exits with a
\* failure code) or JSON.parse threw: 500
ScoreAudit(q) ==
    /\ requests[q].kind = "score"
    /\ requests[q].pc = "start"
    /\ \/ \E report \in AuditReports :
             requests' = [requests EXCEPT ![q] =
                With(@, [pc |-> "capture",
                         vulnerabilityCount |-> VulnerabilityCount(report),
                         githubHighRiskCount |-> HighRiskCount(report)])]
       \/ requests' = [requests EXCEPT ![q] =
              With(@, [pc |-> "done",
                       response |-> [status |-> 500, body |-> <<>>]])]
    /\ UNCHANGED <<db, collection, date>>
    /\ UNCHANGED serverFrame

\* tshark is over: c2Count, riskScore and scoreResult (lines 261-273) and
\* saveScanResult("riskScore", scoreResult) is called; or execAsync rejected
ScoreCapture(q) ==
    /\ requests[q].kind = "score"
    /\ requests[q].pc = "capture"
    /\ \/ \E out \in DnsOutputs :
             LET c2 == C2Count(out)
                 vulns == requests[q].vulnerabilityCount
                 high == requests[q].githubHighRiskCount
             IN  requests' = [requests EXCEPT ![q] =
                    With(@, [pc |-> "save", type |-> "riskScore", c2Count |-> c2,
                             data |-> [vulnerabilityCount |-> vulns,
                                       c2Count |-> c2,
                                       githubHighRiskCount |-> high,
                                       riskScore |-> RiskScore(vulns, c2, high)]])]
       \/ requests' = [requests EXCEPT ![q] =
              With(@, [pc |-> "done",
                       response |-> [status |-> 500, body |-> <<>>]])]
    /\ UNCHANGED <<db, collection, date>>
    /\ UNCHANGED serverFrame

\* the places of a document in a list ordered by sort({ timestamp: 1 })
PlacesOldestFirst(docs, doc) ==
    {p \in 1..(Len(docs) + 1) :
        /\ \A k \in 1..(p - 1) : docs[k].timestamp <= doc.timestamp
        /\ \A k \in p..Len(docs) : docs[k].timestamp >= doc.timestamp}

\* the places of a document in a list ordered by sort({ timestamp: -1 });
\* documents of one timestamp come in any order
Places(docs, doc) ==
    {p \in 1..(Len(docs) + 1) :
        /\ \A k \in 1..(p - 1) : docs[k].timestamp >= doc.timestamp
        /\ \A k \in p..Len(docs) : docs[k].timestamp <= doc.timestamp}

RECURSIVE FindSorted(_)
\* collection.find({}).sort({ timestamp: -1 }).toArray(): the answers the
\* query can give
FindSorted(docs) ==
    LET \* the documents with one more put at position p
        InsertAt(list, doc, p) ==
            SubSeq(list, 1, p - 1) \o <<doc>> \o SubSeq(list, p, Len(list))
    IN  IF docs = <<>> THEN {<<>>}
        ELSE UNION {{InsertAt(rest, Head(docs), p)
                        : p \in Places(rest, Head(docs))}
                       : rest \in FindSorted(Tail(docs))}

\* GET /report up to its await: 500 if db is not set, else the query is sent
ReportStart(q) ==
    /\ requests[q].kind = "report"
    /\ requests[q].pc = "start"
    /\ requests' = [requests EXCEPT ![q] =
           IF db # "connected"
           THEN With(@, [pc |-> "done",
                         response |-> [status |-> 500, body |-> <<>>]])
           ELSE With(@, [pc |-> "find"])]
    /\ UNCHANGED <<db, collection, date>>
    /\ UNCHANGED serverFrame

\* the query answers and res.json(results)
ReportFound(q) ==
    /\ requests[q].pc = "find"
    /\ \E found \in FindSorted(collection) :
          requests' = [requests EXCEPT ![q] =
              With(@, [pc |-> "done",
                       response |-> [status |-> 200, body |-> found]])]
    /\ UNCHANGED <<db, collection, date>>
    /\ UNCHANGED serverFrame

\* the query rejects: 500
ReportFails(q) ==
    /\ requests[q].pc = "find"
    /\ requests' = [requests EXCEPT ![q] =
           With(@, [pc |-> "done",
                    response |-> [status |-> 500, body |-> <<>>]])]
    /\ UNCHANGED <<db, collection, date>>
    /\ UNCHANGED serverFrame

----------------------------------------------------------------------------
(* Initial states and specifications *)

\* every tool but the given one is in the state it has before it is started
\* (the server: started, the connection not yet made, no request)
OthersIdle(tool) ==
    /\ IF tool = "fetch" THEN TRUE
       ELSE /\ served = {}
            /\ cutoffDate = 0
            /\ items = <<>>
            /\ concurrency = 1
            /\ extracted = {}
            /\ preExisting = {}
            /\ idx = 0
            /\ active = <<>>
            /\ jobs = <<>>
            /\ race = NoRace
            /\ results = <<>>
            /\ ledger = [written |-> FALSE, success |-> <<>>, failed |-> <<>>]
            /\ mainPc = "start"
    /\ IF tool = "exec" THEN TRUE
       ELSE /\ pkgs = <<>>
            /\ i = 1
            /\ execPc = "loop"
            /\ outJson = [s \in SafeUniverse |-> NoFile]
            /\ outTxt = [s \in SafeUniverse |-> NoTxt]
            /\ markers = [s \in SafeUniverse |-> {}]
            /\ ctr = "none"
            /\ capture = "none"
            /\ install = "none"
            /\ log = <<>>
            /\ dockerRuns = [s \in SafeUniverse |-> 0]
            /\ now = 1
            /\ starts = 1
    /\ IF tool = "parse" THEN TRUE
       ELSE /\ readTxt = NoTxt
            /\ readDomains = Unread
    /\ IF tool = "enrich" THEN TRUE
       ELSE /\ stdout = <<>>
            /\ selectedDomains = <<>>
            /\ lookups = <<>>
            /\ clock = 0
            /\ c2Pc = "idle"
            /\ c2Data = NoData
    /\ IF tool = "sample" THEN TRUE
       ELSE /\ fileLines = <<>>
            /\ sampleSize = 0
            /\ seed = 0
            /\ runs = <<>>
    /\ IF tool = "classify" THEN TRUE
       ELSE /\ code = <<>>
            /\ verdicts = <<>>
    /\ IF tool = "server" THEN TRUE
       ELSE /\ db = "connecting"
            /\ collection = <<>>
            /\ date = 0
            /\ requests = <<>>
            /\ tree = <<>>
    /\ IF tool = "batch" THEN TRUE
       ELSE /\ batchPkgs = <<>>
            /\ batchIdx = 0
            /\ targets = {}
            /\ workers = <<>>
            /\ outFiles = {}
            /\ scans = <<>>
            /\ batchPc = "start"

\* the state when runQueue is about to be called: the input file was read, the
\* output directory exists and may hold what an earlier run extracted
FetchStart(lists, fresh) ==
    /\ items \in lists
    /\ concurrency \in 1..MaxConc
    /\ extracted \in (IF fresh THEN {{}} ELSE SUBSET SafeNamesOf(items))
    /\ preExisting = extracted
    /\ idx = 0
    /\ active = <<>>
    /\ jobs = [j \in 1..Len(items) |-> QueuedJob]
    /\ race = NoRace
    /\ results = <<>>
    /\ ledger = [written |-> FALSE, success |-> <<>>, failed |-> <<>>]
    /\ mainPc = "start"

\* what the registry may answer and the cutoff the process was started with
Registry(docs, days) ==
    /\ served \in docs
    /\ cutoffDate \in {DateOf(t) : t \in days}

\* the documents with at most one version: every outcome of the selection
\* occurs among them
FetchDocs == {meta \in MetaDocs : Len(meta.time) <= 3}

\* input files whose lines share a sanitized name: two different names, and
\* one name twice
CollidingLists == {<<Scoped, Plused>>, <<Plain, Plain>>}

FetchInit ==
    /\ OthersIdle("fetch")
    /\ FetchStart(ListsUpTo(MaxJobs) \cup CollidingLists, FALSE)
    /\ Registry({FetchDocs}, {2})

FetchNext ==
    \/ RunQueueStart
    \/ \E j \in JobIds : MetaDone(j)
    \/ \E j \in JobIds : MkdirDone(j)
    \/ \E j \in JobIds : DownloadDone(j)
    \/ \E j \in JobIds : DownloadStall(j)
    \/ \E j \in JobIds : DownloadCrash(j)
    \/ \E j \in JobIds : BackoffDone(j)
    \/ \E j \in JobIds : ExtractDone(j)
    \/ \E j \in JobIds : Finally(j)
    \/ Resume
    \/ AllSettled
    \/ WriteLedgers

FetchSpec == FetchInit /\ [][FetchNext]_vars

\* Every callback whose event has happened is run by the event loop; the only
\* steps nothing obliges to happen are the download breaking off and the file
\* stream failing.
FetchFairness ==
    /\ WF_vars(RunQueueStart)
    /\ \A j \in 1..(MaxJobs + 1) :
          /\ WF_vars(j \in JobIds /\ MetaDone(j))
          /\ WF_vars(j \in JobIds /\ MkdirDone(j))
          /\ WF_vars(j \in JobIds /\ DownloadDone(j))
          /\ WF_vars(j \in JobIds /\ BackoffDone(j))
          /\ WF_vars(j \in JobIds /\ ExtractDone(j))
          /\ WF_vars(j \in JobIds /\ Finally(j))
    /\ WF_vars(Resume)
    /\ WF_vars(AllSettled)
    /\ WF_vars(WriteLedgers)

FairFetchSpec == FetchInit /\ [][FetchNext]_vars /\ FetchFairness

\* One package, one metadata document the registry answers with, one cutoff:
\* the version selection applied to every document and every cutoff day
ResolveInit ==
    /\ OthersIdle("fetch")
    /\ FetchStart({<<Plain>>}, TRUE)
    /\ concurrency = 1
    /\ Registry({{meta} : meta \in MetaDocs}, 0..MaxTime)

ResolveSpec == ResolveInit /\ [][FetchNext]_vars

QueueInit ==
    /\ OthersIdle("fetch")
    /\ FetchStart(ListsUpTo(MaxItems), TRUE)
    /\ Registry({{}}, {0})

QueueNext ==
    \/ RunQueueStart
    \/ \E j \in JobIds : WorkerSettles(j)
    \/ \E j \in JobIds : Finally(j)
    \/ Resume
    \/ AllSettled
    \/ WriteLedgers

QueueSpec == QueueInit /\ [][QueueNext]_vars

ExecInit ==
    /\ OthersIdle("exec")
    /\ pkgs \in ListsUpTo(MaxPkgs)
    /\ i = 1
    /\ execPc = "loop"
    /\ outJson = [s \in SafeUniverse |-> NoFile]
    /\ outTxt = [s \in SafeUniverse |-> NoTxt]
    /\ markers = [s \in SafeUniverse |-> {}]
    /\ ctr = "none"
    /\ capture = "none"
    /\ install = "none"
    /\ log = [k \in DOMAIN pkgs |-> {}]
    /\ dockerRuns = [s \in SafeUniverse |-> 0]
    /\ now = 1
    /\ starts = 1

ExecNext ==
    \/ Iterate
    \/ LaunchFails
    \/ Launch
    \/ ContainerSetup
    \/ CaptureEnds
    \/ InstallEnds
    \/ InstallHangs
    \/ ContainerFinish
    \/ WriteOpen
    \/ WriteData
    \/ Pause
    \/ Kill
    \/ Restart

ExecSpec == ExecInit /\ [][ExecNext]_vars

\* The executor is synchronous code and runs on; the container's script runs on
\* and tshark stops at its duration.  Nothing obliges a kill, a restart, or the
\* install to hang.
ExecFairness ==
    /\ WF_vars(Iterate)
    /\ WF_vars(LaunchFails \/ Launch)
    /\ WF_vars(ContainerSetup)
    /\ WF_vars(CaptureEnds)
    /\ WF_vars(InstallEnds)
    /\ WF_vars(ContainerFinish)
    /\ WF_vars(WriteOpen)
    /\ WF_vars(WriteData)
    /\ WF_vars(Pause)

FairExecSpec == ExecInit /\ [][ExecNext]_vars /\ ExecFairness

----------------------------------------------------------------------------
(* Claims about the Fetch Pipeline *)

Finalized == {j \in JobIds : jobs[j].phase = "finalized"}
Count(rs, name) == Cardinality({k \in DOMAIN rs : rs[k].pkg = name})

\* C1: when the pipeline is done, the results hold exactly one outcome per input
\* name, so the two ledgers together have as many entries as there are input
\* names, and the failed ledger has one entry per job that failed.
C1_OneOutcomePerName ==
    mainPc = "done" =>
        /\ Len(results) = Len(items)
        /\ \A j \in JobIds :
              Count(results, items[j]) = Cardinality({h \in JobIds : items[h] = items[j]})
        /\ Len(ledger.success) + Len(ledger.failed) = Len(items)
        /\ Len(ledger.failed) = Cardinality({j \in JobIds : ~jobs[j].res.ok})

\* C6: a package whose directory held extracted content when the process
\* started gets no metadata request, no download and no extraction.
C6_NotRefetched ==
    \A j \in JobIds :
        safeName(items[j]) \in preExisting =>
            jobs[j].phase \notin {"meta", "mkdir", "download", "backoff", "extract",
                                  "hung"}

\* C7: at every moment of runQueue the number of dispatched jobs that have not
\* settled is at most the concurrency limit (and so is the length of `active`).
C7_InFlightBound ==
    /\ Cardinality(InFlight) <= concurrency
    /\ Len(active) <= concurrency

C7_Witness ==
    /\ Cardinality(InFlight) = concurrency
    /\ concurrency < idx
    /\ idx < Len(items)
    /\ results # <<>>

\* C8: whenever the dispatcher has handled every completion so far and waits
\* for the next one, the number of jobs in the pool is min(C, number of names
\* not yet completed): the pool is not below C while names are queued.
C8_PoolRefilled ==
    (mainPc = "await" /\ race.val = NoRes) =>
        Len(active) = Min(concurrency, Len(items) - Cardinality(Finalized))

\* C9: every failure inside a job is caught and converted: the process is not
\* brought down, no job is left unsettled by a failure, a job that failed
\* settles (fulfilled, never rejected) with a failure entry carrying its own
\* package name and the error, every entry of the results is the outcome of a
\* job of that name (never "unknown"), and the dispatcher returns only after
\* every name was dispatched.
C9_Settled == {j \in JobIds : jobs[j].phase \in {"settled", "finalized"}}

C9_FailuresRecorded ==
    /\ mainPc # "crashed"
    /\ \A j \in JobIds : jobs[j].phase # "hung"
    /\ \A j \in C9_Settled :
          /\ jobs[j].res.st = "fulfilled"
          /\ jobs[j].res.pkg = items[j]
          /\ jobs[j].res.ok \/ jobs[j].res.error \in ErrorKinds
    /\ \A k \in DOMAIN results :
          \E j \in C9_Settled : results[k] = jobs[j].res
    /\ mainPc \in {"returned", "done"} => idx = Len(items)

\* C10: the pipeline always completes: runQueue returns and the ledgers and the
\* tally are written.
C10_Completes == <>(mainPc = "done" /\ ledger.written)

\* C11: the archive download is attempted at most MAX_DL_TRIES (3) times.  The
\* first attempt follows the directory creation; attempt n+1 (n = 1, 2) is
\* made only when the backoff timer of n x 1000 ms that attempt n's failure
\* set has fired.  A backoff is set only by a download attempt below the
\* limit; the extraction is started only by a download attempt, which ends
\* the retrying; a job that leaves the download for its end made the third
\* attempt and ends as the failure DOWNLOAD_FAILED, with no backoff and no
\* extraction.
C11_DownloadRetry ==
    [][\A j \in JobIds :
          LET a == jobs[j]
              b == jobs'[j]
          IN  /\ b.attempt <= MAX_DL_TRIES
              /\ (b.phase = "download" /\ a # b) =>
                    \/ a.phase = "mkdir" /\ b.attempt = 1
                    \/ /\ a.phase = "backoff"
                       /\ a.attempt \in 1..2
                       /\ a.wait = a.attempt * 1000
                       /\ b.attempt = a.attempt + 1
              /\ (b.phase = "backoff" /\ a # b) =>
                    /\ a.phase = "download"
                    /\ a.attempt < MAX_DL_TRIES
                    /\ b.attempt = a.attempt
              /\ (b.phase = "extract" /\ a # b) => a.phase = "download"
              /\ (a.phase = "download" /\ b.phase = "settled") =>
                    /\ a.attempt = MAX_DL_TRIES
                    /\ b.res = Failure(items[j], "DOWNLOAD_FAILED")
              /\ (b.res.error = "DOWNLOAD_FAILED" /\ a.res = NoRes) =>
                    /\ a.phase = "download"
                    /\ a.attempt = MAX_DL_TRIES
                    /\ safeName(items[j]) \in extracted' =>
                          safeName(items[j]) \in extracted]_vars

\* a job gave up after its third failed attempt
C11_Witness ==
    \E j \in JobIds : /\ jobs[j].phase = "settled"
                      /\ jobs[j].res = Failure(items[j], "DOWNLOAD_FAILED")


\* C12: the version a job selected is a version key of the time map (never
\* "created" or "modified") whose publish time is not after the cutoff, and no
\* other version key with a time not after the cutoff has a strictly later
\* time; a job that goes on to the download has selected a version.  (With
\* versions at T1 < T2 < T3 and the cutoff at T2 this is the version at T2.)
C12_Eligible(meta) ==
    {e \in Range(meta.time) :
        e[1] \notin {"created", "modified"} /\ DateOf(e[2]) <= cutoffDate}

C12_LatestNotAfterCutoff ==
    \A j \in JobIds : \A meta \in served :
        /\ jobs[j].version # "" =>
              \E e \in C12_Eligible(meta) :
                  /\ e[1] = jobs[j].version
                  /\ \A f \in C12_Eligible(meta) : f[2] <= e[2]
        /\ jobs[j].phase \in {"mkdir", "download", "backoff", "extract"} =>
              jobs[j].version # ""

\* versions at three different times, the cutoff at the middle one, and the
\* middle one selected
C12_Witness ==
    \E j \in JobIds : \E meta \in served :
        /\ meta.time = TimeEntries(3, <<1, 2, 3>>)
        /\ cutoffDate = DateOf(2)
        /\ jobs[j].version = "1.1.0"

\* C13: a job whose metadata document has no version published by the cutoff
\* fails with NO_VERSION_BEFORE_CUTOFF; one whose latest such version (every
\* one of them, when several share the latest time) has no tarball reference
\* fails with NO_TARBALL_FOR_SELECTED_VERSION, and that error is given for no
\* other reason.  Such a job ends straight from the metadata step: it never
\* downloads, nothing is extracted for it, and the ledger of failures holds
\* its entry.
C13_Latest(meta) ==
    {e \in C12_Eligible(meta) : \A f \in C12_Eligible(meta) : f[2] <= e[2]}

C13_ResolutionErrors == {"NO_VERSION_BEFORE_CUTOFF",
                         "NO_TARBALL_FOR_SELECTED_VERSION"}

C13_ResolutionFailure ==
    /\ [](\A j \in JobIds : \A meta \in served :
            LET job == jobs[j]
                past == job.phase \notin {"queued", "meta"}
                           /\ job.res.error # "META_ERROR"
            IN  /\ (past /\ C12_Eligible(meta) = {}) =>
                      job.res = Failure(items[j], "NO_VERSION_BEFORE_CUTOFF")
                /\ (past /\ C12_Eligible(meta) # {}
                          /\ \A e \in C13_Latest(meta) : e[1] \notin meta.tarballs)
                      => job.res = Failure(items[j],
                                           "NO_TARBALL_FOR_SELECTED_VERSION")
                /\ job.res.error = "NO_TARBALL_FOR_SELECTED_VERSION" =>
                      \E e \in C13_Latest(meta) : e[1] \notin meta.tarballs
                /\ job.res.error = "NO_VERSION_BEFORE_CUTOFF" =>
                      C12_Eligible(meta) = {}
                /\ job.res.error \in C13_ResolutionErrors =>
                      /\ job.phase \in {"settled", "finalized"}
                      /\ safeName(items[j]) \notin extracted
                      /\ mainPc = "done" =>
                            /\ job.res \in Range(ledger.failed)
                            /\ ledger.success = <<>>)
    /\ [][\A j \in JobIds :
             jobs'[j].res.error \in C13_ResolutionErrors =>
                 jobs[j].phase \in {"meta", "settled", "finalized"}]_vars

\* the run ended with the failure entry of a version without a tarball
C13_Witness ==
    /\ mainPc = "done"
    /\ ledger.failed = <<Failure(Plain, "NO_TARBALL_FOR_SELECTED_VERSION")>>

\* C18: no two jobs of the Fetch Pipeline that are at work on their output
\* directory (creating it, downloading into it, extracting into it) at the same
\* time have the same directory <outDir>/<safeName>.
C18_AtWork(j) == jobs[j].phase \in {"mkdir", "download", "extract"}

C18_NoSharedDirectory ==
    \A j, h \in JobIds :
        (j # h /\ C18_AtWork(j) /\ C18_AtWork(h)) =>
            safeName(items[j]) # safeName(items[h])

\* The reading of a capture file, for every file of up to MaxLines lines and
\* for the file that does not exist
ParseInit ==
    /\ OthersIdle("parse")
    /\ readTxt \in TxtFiles(MaxLines) \cup {NoTxt}
    /\ readDomains = Unread

ParseNext == ReadDomains

ParseSpec == ParseInit /\ [][ParseNext]_vars

\* One request to /scan/c2, at the moment the capture command was started
EnrichInit ==
    /\ OthersIdle("enrich")
    /\ stdout \in {SubSeq(CapturedNames, 1, n) : n \in 0..MaxCaptured}
    /\ selectedDomains = <<>>
    /\ lookups = <<>>
    /\ clock = 0
    /\ c2Pc = "capture"
    /\ c2Data = NoData

EnrichNext ==
    \/ CaptureDone
    \/ Tick
    \/ \E k \in DOMAIN lookups : TimerFires(k)
    \/ \E k \in DOMAIN lookups : LookupSettles(k)
    \/ Collect
    \/ Respond

EnrichSpec == EnrichInit /\ [][EnrichNext]_vars

\* two runs of the script on one input file with one sample size
SampleStart(seeds) ==
    /\ OthersIdle("sample")
    /\ fileLines \in {SubSeq(<<"p1", "", "p2", "p3", " ", "p4", "p5", "p6", "p7">>,
                            1, n) : n \in 0..MaxFileLines}
    /\ sampleSize \in 0..MaxSample
    /\ seed \in seeds
    /\ runs = [r \in 1..2 |-> NewRun]

SampleNext ==
    \/ \E r \in DOMAIN runs : ReadInput(r)
    \/ \E r \in DOMAIN runs : ShuffleStep(r)
    \/ \E r \in DOMAIN runs : WriteSample(r)

\* the script as it is: the seed is the constant of line 17
SamplerInit == SampleStart({ProgramSeed})

SamplerSpec == SamplerInit /\ [][SampleNext]_vars

\* makeRNG and the shuffle for other seeds as well: the script's, 0, 1, and
\* two whose first and second generator states are 0xffffffff (1584200935, and
\* 3764646662 given as a signed number)
ShuffleInit == SampleStart({ProgramSeed, 0, 1, 1584200935, -530320634})

ShuffleSpec == ShuffleInit /\ [][SampleNext]_vars

\* the texts of up to MaxRuns runs; the lengths of a run of characters are
\* around both limits, and those of the lines of a text that averages 40
ClassifyInit ==
    /\ OthersIdle("classify")
    /\ LET RunChars == {0, 1, 39, 40, 199, 200, 201, 399, 1000, 1001, 1200}
           TextRuns == [chars : RunChars, newlines : {0, 1}, times : {1, 49}]
       IN  code \in UNION {[1..n -> TextRuns] : n \in 0..MaxRuns}
    /\ verdicts = <<>>

ClassifyNext == Classify

ClassifySpec == ClassifyInit /\ [][ClassifyNext]_vars

\* a request as it arrives: no local of its handler is set
NewRequest(kind) ==
    [kind |-> kind, pc |-> "start", type |-> "", data |-> <<>>,
     doc |-> NoDoc, response |-> [status |-> 0, body |-> <<>>],
     realRoot |-> <<>>, jsFiles |-> <<>>, results |-> <<>>,
     vulnerabilityCount |-> 0, c2Count |-> 0, githubHighRiskCount |-> 0]

StoreInit ==
    /\ OthersIdle("server")
    /\ db = "connecting"
    /\ collection \in {<<>>, <<[id |-> 1, type |-> "c2Scan", data |-> <<"old">>,
                                 timestamp |-> 0]>>}
    /\ date = 1
    /\ requests \in UNION {[1..n -> {NewRequest("scan"), NewRequest("report")}]
                              : n \in 1..MaxRequests}
    /\ tree = <<>>

StoreNext ==
    \/ Connects
    \/ ConnectFails
    \/ DateTick
    \/ \E q \in DOMAIN requests : ScanWork(q)
    \/ \E q \in DOMAIN requests : SaveScanResult(q)
    \/ \E q \in DOMAIN requests : InsertOk(q)
    \/ \E q \in DOMAIN requests : InsertFails(q)
    \/ \E q \in DOMAIN requests : ScanRespond(q)
    \/ \E q \in DOMAIN requests : ReportStart(q)
    \/ \E q \in DOMAIN requests : ReportFound(q)
    \/ \E q \in DOMAIN requests : ReportFails(q)

StoreSpec == StoreInit /\ [][StoreNext]_vars

\* the directories a request can name.  The k-th .js file of a directory is
\* f<k>.js (k in three digits); every second one is a single long line, every
\* fifth one cannot be read.
Trees ==
    LET Digits == <<"0", "1", "2", "3", "4", "5", "6", "7", "8", "9">>
        Numbered(k) ==
            <<"f", Digits[((k \div 100) % 10) + 1],
              Digits[((k \div 10) % 10) + 1], Digits[(k % 10) + 1],
              ".", "j", "s">>
        LongLine == <<[chars |-> 1200, newlines |-> 0, times |-> 1]>>
        ShortText == <<[chars |-> 40, newlines |-> 1, times |-> 1]>>
        FileNamed(name) ==
            [name |-> name, kind |-> "file", entries |-> <<>>,
             text |-> ShortText, readable |-> TRUE]
        JsFile(k) ==
            [name |-> Numbered(k), kind |-> "file", entries |-> <<>>,
             text |-> IF k % 2 = 0 THEN LongLine ELSE ShortText,
             readable |-> k % 5 # 3]
        DirNamed(name, entries) ==
            [name |-> name, kind |-> "dir", entries |-> entries,
             text |-> <<>>, readable |-> TRUE]
        \* a directory fs.readdir is refused on
        LockedDir(name) ==
            [name |-> name, kind |-> "dir", entries |-> <<>>, text |-> <<>>,
             readable |-> FALSE]
        \* a symbolic link: neither isDirectory() nor isFile()
        LinkNamed(name) ==
            [name |-> name, kind |-> "link", entries |-> <<>>, text |-> <<>>,
             readable |-> TRUE]
        JsFiles(n) == [k \in 1..n |-> JsFile(k)]
        \* the target directory with package.json and the given entries
        Package(entries) ==
            DirNamed(TargetDir, <<FileNamed(PackageJson)>> \o entries)
        \* one directory with n .js files
        Wide(n) == Package(JsFiles(n))
        \* two directories with n and m .js files and a file after them
        TwoDirs(n, m) ==
            Package(<<DirNamed(<<"a">>, JsFiles(n)),
                      DirNamed(<<"b">>, JsFiles(m)), JsFile(1)>>)
        \* a .js file and a directory `d` that holds the same, `levels` times
        RECURSIVE Chain(_)
        Chain(levels) ==
            <<JsFile(levels + 1)>>
            \o (IF levels = 0 THEN <<>>
                ELSE <<DirNamed(<<"d">>, Chain(levels - 1))>>)
        Deep(levels) == Package(Chain(levels))
        \* the chain, and next to it a directory with n .js files
        DeepAndWide(levels, n) ==
            Package(Chain(levels) \o <<DirNamed(<<"w">>, JsFiles(n))>>)
        Mixed ==
            Package(<<JsFile(1),
                      FileNamed(<<"b", ".", "t", "x", "t">>),
                      FileNamed(<<"j", "s">>),
                      FileNamed(<<".", "j", "s">>),
                      LinkNamed(<<"k", ".", "j", "s">>),
                      DirNamed(NodeModules, <<JsFile(2)>>),
                      DirNamed(<<"s", "r", "c">>,
                               <<JsFile(3), JsFile(4),
                                 DirNamed(NodeModules,
                                          <<DirNamed(<<"m">>, <<JsFile(5)>>)>>),
                                 LinkNamed(<<"l", ".", "j", "s">>)>>),
                      DirNamed(<<"d", ".", "j", "s">>, <<JsFile(6)>>),
                      JsFile(7)>>)
        \* package.json is in the directory `package` only
        InPackageDir ==
            DirNamed(TargetDir,
                     <<JsFile(9),
                       DirNamed(PackageDir,
                                <<FileNamed(PackageJson), JsFile(1),
                                  DirNamed(<<"d">>, <<JsFile(2)>>)>>)>>)
        NoPackageJson == DirNamed(TargetDir, <<JsFile(1)>>)
        Locked == Package(<<JsFile(1), LockedDir(<<"x">>), JsFile(2)>>)
    IN  {Wide(n) : n \in {0, 1, maxFiles - 1, maxFiles, maxFiles + MaxExtraFiles}}
        \cup {TwoDirs(maxFiles - 3, MaxExtraFiles)}
        \cup {DeepAndWide(maxDepth + MaxExtraDepth, maxFiles + MaxExtraFiles)}
        \cup {Deep(levels) : levels \in 0..(maxDepth + MaxExtraDepth)}
        \cup {Mixed, InPackageDir, NoPackageJson, Locked}

\* one request to /scan/obfuscation about a directory
WalkInit ==
    /\ OthersIdle("server")
    /\ db \in {"connected", "failed"}
    /\ collection = <<>>
    /\ date = 1
    /\ requests = <<NewRequest("obfuscation")>>
    /\ tree \in Trees

WalkNext ==
    \/ \E q \in DOMAIN requests : Locate(q)
    \/ \E q \in DOMAIN requests : Walked(q)
    \/ \E q \in DOMAIN requests : ReadFile(q)
    \/ \E q \in DOMAIN requests : SaveScanResult(q)
    \/ \E q \in DOMAIN requests : InsertOk(q)
    \/ \E q \in DOMAIN requests : InsertFails(q)
    \/ \E q \in DOMAIN requests : ScanRespond(q)

WalkSpec == WalkInit /\ [][WalkNext]_vars

\* two requests to /scan/score at a time
ScoreInit ==
    /\ OthersIdle("server")
    /\ db \in {"connected", "failed"}
    /\ collection = <<>>
    /\ date = 1
    /\ requests = <<NewRequest("score"), NewRequest("score")>>
    /\ tree = <<>>

ScoreNext ==
    \/ \E q \in DOMAIN requests : ScoreAudit(q)
    \/ \E q \in DOMAIN requests : ScoreCapture(q)
    \/ \E q \in DOMAIN requests : SaveScanResult(q)
    \/ \E q \in DOMAIN requests : InsertOk(q)
    \/ \E q \in DOMAIN requests : InsertFails(q)
    \/ \E q \in DOMAIN requests : ScanRespond(q)

ScoreSpec == ScoreInit /\ [][ScoreNext]_vars

----------------------------------------------------------------------------
(* Claims about the Sandbox Executor *)

\* C2: a result artifact that exists is never written again and docker is
\* never invoked for its package again (the only artifact that changes is the
\* one the executor is in the middle of writing); a package reached with its
\* artifact present is passed over without a launch.
C2_Idempotent ==
    [][/\ \A s \in SafeUniverse :
            (outJson[s].exists /\ ~(execPc = "writing" /\ Safe = s)) =>
                (outJson'[s] = outJson[s] /\ dockerRuns'[s] = dockerRuns[s])
       /\ (execPc = "loop" /\ i <= Len(pkgs)) =>
            (outJson[Safe].exists => execPc' # "launch")]_vars

C2_Witness ==
    /\ starts = 2
    /\ execPc = "done"
    /\ \E k \in DOMAIN pkgs :
          /\ log[k] = {"SKIP"}
          /\ outJson[safeName(pkgs[k])].complete
          /\ dockerRuns[safeName(pkgs[k])] = 1

\* C3: a job does not stay in the container for ever: once it is launched it
\* gets past the capture and its result is persisted (unless the process is
\* killed).
C3_CaptureBounded == (execPc = "docker") ~> (execPc \in {"pause", "dead"})

\* C4: a <safe>.json that a run treats as the done marker (it skips the
\* package) holds the complete result record.
C4_MarkerComplete ==
    \A k \in DOMAIN log :
        "SKIP" \in log[k] => outJson[safeName(pkgs[k])].complete

\* C5: a launch failure does not abort the run: when the run is over, every
\* package after the one whose launch failed was processed too (skipped or run).
C5_LaunchFailureNotFatal ==
    \A k \in DOMAIN log :
        ("FAILED" \in log[k] /\ execPc = "done") =>
            \A m \in DOMAIN log : m > k => log[m] # {}

C5_Witness ==
    /\ execPc = "done"
    /\ \E k \in DOMAIN log :
          /\ "FAILED" \in log[k]
          /\ k < Len(pkgs)
          /\ "RUN" \in log[k + 1]

C15_JoinedOnCapture ==
    [][/\ (install = "running" /\ install' \in {"succeeded", "failed"}) =>
            /\ capture' = capture
            /\ ctr' = "wait" /\ execPc' = "docker"
            /\ markers' = markers /\ outTxt' = outTxt /\ outJson' = outJson
       /\ (markers' # markers /\ "end" \in markers'[Safe]) => capture = "ended"
       /\ outTxt' # outTxt => capture = "ended"
       /\ (ctr = "wait" /\ ctr' = "none" /\ execPc' # "dead") =>
            capture = "ended"
       /\ outJson' # outJson =>
            /\ ctr = "none" /\ capture = "none"
            /\ "FAILED" \notin log[i] =>
                  "end" \in markers[Safe] /\ outTxt[Safe] # NoTxt
      ]_vars

\* the install has returned and the capture is still running
C15_Witness ==
    /\ execPc = "docker" /\ ctr = "wait"
    /\ install \in {"succeeded", "failed"}
    /\ capture = "running"

\* C16: a package that was not skipped and that the loop has left has its
\* record written: the file <safe>.json is complete and holds the package
\* name, the domains read from <safe>.txt, an empty vt and a timestamp; the
\* file is written by that job only, once (opened and filled before "WROTE");
\* when the run is done every package of the list has its file.
C16_Written(k) ==
    LET file == outJson[safeName(pkgs[k])]
    IN  /\ "WROTE" \in log[k]
        /\ file.exists /\ file.complete
        /\ file.pkg = pkgs[k]
        /\ file.domains = DomainsOf(outTxt[safeName(pkgs[k])])
        /\ file.vt = {}
        /\ file.timestamp \in 1..(now - 1)

C16_RecordPerJob ==
    /\ [](\A k \in DOMAIN pkgs :
            /\ ("RUN" \in log[k] /\ (k < i \/ execPc \in {"pause", "done"}))
                  => C16_Written(k)
            /\ execPc = "done" => outJson[safeName(pkgs[k])].exists)
    /\ [][\A s \in SafeUniverse :
             outJson'[s] # outJson[s] =>
                /\ s = Safe
                /\ "RUN" \in log[i] /\ "WROTE" \notin log[i]
                /\ \/ execPc = "collect" /\ outJson'[s] = Truncated
                   \/ execPc = "writing" /\ "WROTE" \in log'[i]]_vars

\* the run is done; a package whose install failed and a package whose
\* container never started both have their records
C16_Witness ==
    /\ execPc = "done"
    /\ install = "failed"
    /\ \E k \in DOMAIN pkgs : "FAILED" \in log[k] /\ C16_Written(k)
    /\ \E k \in DOMAIN pkgs : "FAILED" \notin log[k] /\ C16_Written(k)

\* C17: the domain list read from a capture file has no name twice and holds
\* exactly the names of its records: of each record the DNS name when that
\* field is not blank (also when the TLS field is not blank either), else the
\* TLS server name when that one is not blank; a record with both fields
\* blank gives no name, and a file that does not exist gives no names.
C17_Blank(field) == field \in {"", " "}

C17_NameOf(line) ==
    IF ~C17_Blank(line[1]) THEN {line[1]}
    ELSE IF ~C17_Blank(line[2]) THEN {line[2]}
    ELSE {}

C17_DomainsExact ==
    readDomains # Unread =>
        /\ \A a, b \in DOMAIN readDomains :
               a # b => readDomains[a] # readDomains[b]
        /\ Range(readDomains) =
              (IF readTxt = NoTxt THEN {}
               ELSE UNION {C17_NameOf(readTxt[k]) : k \in DOMAIN readTxt})

\* a file with a DNS-only record, a record with both names, a repeated name
\* and a blank record was read
C17_Witness ==
    /\ readTxt = << <<"x.io", "y.io">>, <<"", "x.io">>, <<" ", "">> >>
    /\ readDomains = <<"x.io">>

\* C28: a result artifact exists for a package only if the container of that
\* package was started and its capture ran to the end; a package whose launch
\* failed has no artifact when the run has passed it.
C28_ArtifactAfterCapture ==
    /\ \A s \in SafeUniverse : outJson[s].exists => "end" \in markers[s]
    /\ \A k \in DOMAIN log :
          ("FAILED" \in log[k] /\ (k < i \/ execPc = "done")) =>
              ~outJson[safeName(pkgs[k])].exists

C30_Runs(s) == {k \in DOMAIN log : "RUN" \in log[k] /\ safeName(pkgs[k]) = s}

C30_Writes(s) ==
    {k \in DOMAIN log : "WROTE" \in log[k] /\ safeName(pkgs[k]) = s}

\* C30: in one run, at most one list position per sanitized name is launched
\* and at most one gets its artifact written; a position whose sanitized name
\* occurred earlier in the list is, once the run reaches it, only skipped.
C30_AtMostOncePerRun ==
    /\ \A s \in SafeUniverse :
          /\ Cardinality(C30_Runs(s)) <= 1
          /\ Cardinality(C30_Writes(s)) <= 1
    /\ \A k, h \in DOMAIN log :
          (k < h /\ safeName(pkgs[k]) = safeName(pkgs[h]) /\ log[h] # {}) =>
              log[h] = {"SKIP"}

\* a first run is over in which a name was executed and a different name with
\* the same sanitized form, later in the list, was skipped
C30_Witness ==
    /\ starts = 1
    /\ execPc = "done"
    /\ \E k, h \in DOMAIN log :
          /\ k < h
          /\ pkgs[k] # pkgs[h]
          /\ safeName(pkgs[k]) = safeName(pkgs[h])
          /\ {"RUN", "WROTE"} \subseteq log[k]
          /\ log[h] = {"SKIP"}

----------------------------------------------------------------------------
(* Claims about the Reputation Enricher *)

\* C19: the response holds one entry per queried domain, in the order the
\* domains were queried: the first min(5, number of distinct captured names)
\* distinct names of the capture.  The entry of a domain carries an error when
\* its lookup failed, and a verdict and no error when it did not.  The step
\* in which one lookup settles leaves every other lookup as it was.
C19_Distinct == {stdout[k] : k \in DOMAIN stdout} \ {""}

C19_OneEntryPerDomain ==
    /\ [](c2Pc = "responded" =>
            LET entries == c2Data.domains
            IN  /\ Len(entries) = Min(5, Cardinality(C19_Distinct))
                /\ Len(entries) = Len(selectedDomains)
                /\ \A k \in DOMAIN entries :
                      /\ entries[k].domain = selectedDomains[k]
                      /\ selectedDomains[k] \in C19_Distinct
                      /\ \A h \in DOMAIN entries :
                            h # k => selectedDomains[h] # selectedDomains[k]
                      /\ lookups[k].wire = "error" =>
                            entries[k].error # "none"
                            /\ entries[k].reputation = "none"
                      /\ lookups[k].wire = "ok" =>
                            entries[k].error = "none"
                            /\ entries[k].reputation = "data")
    /\ [][\A k \in DOMAIN lookups :
             (lookups[k].phase = "request" /\ lookups'[k].phase = "done") =>
                 \A h \in DOMAIN lookups : h # k => lookups'[h] = lookups[h]]_vars

\* five domains were queried, the third lookup failed: five entries, four
\* verdicts and one error
C19_Witness ==
    /\ c2Pc = "responded"
    /\ Len(c2Data.domains) = 5
    /\ \A k \in DOMAIN c2Data.domains :
          IF k = 3 THEN c2Data.domains[k].error # "none"
          ELSE c2Data.domains[k].reputation = "data"

\* C20: a request is sent only when the delay has passed since its lookup was
\* started, and any two requests of the batch are sent at least the delay
\* apart.
C20_RequestsSpaced ==
    \A k \in DOMAIN lookups :
        lookups[k].phase # "delay" =>
            /\ lookups[k].sentAt >= QueryDelayMs
            /\ \A h \in DOMAIN lookups :
                  (h # k /\ lookups[h].phase # "delay") =>
                      \/ lookups[k].sentAt - lookups[h].sentAt >= QueryDelayMs
                      \/ lookups[h].sentAt - lookups[k].sentAt >= QueryDelayMs

----------------------------------------------------------------------------
(* Claims about the Sampler *)

RECURSIVE C21_StateAfter(_, _)
C21_StateAfter(w, n) == IF n = 0 THEN w ELSE Xorshift(C21_StateAfter(w, n - 1))

C22_Names == {Trim(fileLines[k]) : k \in DOMAIN fileLines} \ {""}

\* C22: the sample a run writes has min(k, N) entries for sample size k and
\* an input of N names; they are input names and no name occurs twice; for
\* k >= N every input name occurs; an empty input gives an empty sample.
C22_OutputShape ==
    \A r \in DOMAIN runs :
        runs[r].pc = "done" =>
            LET sample == runs[r].sample
                N == Cardinality(C22_Names)
            IN  /\ Len(sample) = Min(sampleSize, N)
                /\ Range(sample) \subseteq C22_Names
                /\ \A a, b \in DOMAIN sample : a # b => sample[a] # sample[b]
                /\ sampleSize >= N => Range(sample) = C22_Names
                /\ N = 0 => sample = <<>>

\* a sample of three of four names was written
C22_Witness ==
    \E r \in DOMAIN runs :
        /\ runs[r].pc = "done"
        /\ Cardinality(C22_Names) = 4
        /\ Len(runs[r].sample) = 3

\* C29: the index j drawn at position i of the shuffle satisfies 0 <= j <= i,
\* and the list keeps the length it was read with.
C29_IndexInBounds ==
    \A r \in DOMAIN runs :
        /\ 0 <= runs[r].last[2] /\ runs[r].last[2] <= runs[r].last[1]
        /\ runs[r].pc # "start" => Len(runs[r].all) = Cardinality(C22_Names)

----------------------------------------------------------------------------
(* Claims about the Heuristic Scanner *)

C23_OneLine(n) == <<[chars |-> n, newlines |-> 0, times |-> 1]>>

\* 49 lines of 39 characters, each ended by a newline, and a line of 40:
\* 2000 characters in 50 lines
C23_FiftyLines == <<[chars |-> 39, newlines |-> 1, times |-> 49],
                    [chars |-> 40, newlines |-> 0, times |-> 1]>>

\* 199 characters, a newline, 200 characters: 400 characters in 2 lines
C23_AtBoundary == <<[chars |-> 199, newlines |-> 1, times |-> 1],
                    [chars |-> 200, newlines |-> 0, times |-> 1]>>

\* C23: every call of the classifier on a text answers true exactly when
\* the text is one line of more than 1000 characters or its length divided by
\* its number of lines is more than 200; a text at an average of exactly 200
\* is not obfuscated, a single line of 1200 characters is, 50 lines that
\* average 40 characters are not; all calls on one text answer the same.
C23_Classifier ==
    LET length == CodeLength(code)
        lines == SplitLength(code)
        whole == length \div lines
        rest == length % lines
        expected == \/ lines = 1 /\ length > 1000
                    \/ whole > 200
                    \/ whole = 200 /\ rest > 0
    IN  /\ \A c \in DOMAIN verdicts : verdicts[c] = expected
        /\ (whole = 200 /\ rest = 0) =>
               \A c \in DOMAIN verdicts : verdicts[c] = FALSE
        /\ code = C23_OneLine(1200) =>
               \A c \in DOMAIN verdicts : verdicts[c] = TRUE
        /\ code = C23_FiftyLines =>
               \A c \in DOMAIN verdicts : verdicts[c] = FALSE
        /\ \A c, d \in DOMAIN verdicts : verdicts[c] = verdicts[d]

\* the text of two lines at an average of exactly 200 was classified twice
C23_Witness ==
    /\ code = C23_AtBoundary
    /\ Len(verdicts) = 2

----------------------------------------------------------------------------
(* Claims about the result store *)

C26_Stored(q) ==
    {k \in DOMAIN collection : /\ collection[k].type = requests[q].type
                               /\ collection[k].data = requests[q].data}

\* C26: when the call of saveScanResult made for a scan has returned, the
\* history holds exactly one record with the type and the data of the call,
\* whatever the state of the connection was; so does it for every scan that
\* was answered with success.
C26_PersistAlways ==
    \A q \in DOMAIN requests :
        (/\ requests[q].kind = "scan"
         /\ \/ requests[q].pc = "respond"
            \/ requests[q].response.status = 200) =>
            /\ Cardinality(C26_Stored(q)) = 1
            /\ \A k \in C26_Stored(q) : collection[k].timestamp > 0

\* C27: every step keeps the stored documents as they are and in place (new
\* ones come after them), and the list a report answers with holds every
\* stored document exactly once, ordered by timestamp from newest to oldest.
C27_HistoryImmutable ==
    [][/\ Len(collection') >= Len(collection)
       /\ SubSeq(collection', 1, Len(collection)) = collection
       /\ \A q \in DOMAIN requests :
             (/\ requests[q].pc = "find"
              /\ requests'[q].response.status = 200) =>
                 LET body == requests'[q].response.body
                 IN  /\ Len(body) = Len(collection)
                     /\ \A k \in DOMAIN collection :
                           Cardinality({m \in DOMAIN body :
                                           body[m] = collection[k]}) = 1
                     /\ \A m \in 1..(Len(body) - 1) :
                           body[m].timestamp >= body[m + 1].timestamp]_vars

\* a report was answered with three documents of three different times, the
\* one of an earlier run of the server among them
C27_Witness ==
    \E q \in DOMAIN requests :
        /\ requests[q].kind = "report"
        /\ requests[q].response.status = 200
        /\ Len(requests[q].response.body) = 3
        /\ requests[q].response.body[1].timestamp
             > requests[q].response.body[2].timestamp
        /\ requests[q].response.body[2].timestamp
             > requests[q].response.body[3].timestamp
        /\ requests[q].response.body[3].type = "c2Scan"

\* the directories a path goes through below the root of the walk
C24_Levels(q, file) == Len(file) - Len(requests[q].realRoot) - 1

C24_LastThree(name) ==
    IF Len(name) < 3 THEN <<>>
    ELSE <<name[Len(name) - 2], name[Len(name) - 1], name[Len(name)]>>

\* C24: the files a scan has collected are at most 200; each of them is a
\* regular file of the tree whose name ends in .js, lies at most 4
\* directories below the root of the walk and below no directory called
\* node_modules, and occurs once; the answer has one entry per collected
\* file, in their order, with either a verdict or an error, and its
\* fileCount is the number of entries.
C24_WalkBounds ==
    \A q \in DOMAIN requests :
        LET files == requests[q].jsFiles
            root == requests[q].realRoot
        IN  /\ Len(files) <= 200
            /\ \A k \in DOMAIN files :
                  /\ SubSeq(files[k], 1, Len(root)) = root
                  /\ NodeAt(tree, Tail(files[k])).kind = "file"
                  /\ C24_LastThree(files[k][Len(files[k])]) = <<".", "j", "s">>
                  /\ C24_Levels(q, files[k]) >= 0
                  /\ C24_Levels(q, files[k]) <= 4
                  /\ \A m \in (Len(root) + 1)..Len(files[k]) :
                        files[k][m] # NodeModules
                  /\ \A m \in DOMAIN files : m # k => files[m] # files[k]
            /\ requests[q].response.status = 200 =>
                  LET body == requests[q].response.body
                  IN  /\ body.fileCount = Len(body.results)
                      /\ Len(body.results) = Len(files)
                      /\ \A k \in DOMAIN files :
                            /\ root \o body.results[k].file = files[k]
                            /\ DOMAIN body.results[k]
                                 \in {{"file", "obfuscated"}, {"file", "error"}}

\* a scan was answered for the tree that goes deeper than 4 levels and holds
\* more than 200 .js files: 200 files, the one of level 4 among them
C24_Witness ==
    /\ requests[1].response.status = 200
    /\ requests[1].response.body.fileCount = 200
    /\ \E k \in DOMAIN requests[1].jsFiles :
          C24_Levels(1, requests[1].jsFiles[k]) = 4

----------------------------------------------------------------------------
(* Claims about the risk score *)

C25_Answered == {q \in DOMAIN requests : requests[q].response.status = 200}

\* C25: the score of every answer is vulnerabilityCount + c2Count * 2 +
\* highRiskCount * 3 of the three counts of that same answer (10 for the
\* counts 3, 2, 1), and of two answers the one with no smaller counts has no
\* smaller score.
C25_RiskScore ==
    /\ \A q \in C25_Answered :
          LET body == requests[q].response.body
          IN  /\ body.riskScore = body.vulnerabilityCount + body.c2Count * 2
                                     + body.githubHighRiskCount * 3
              /\ (/\ body.vulnerabilityCount = 3
                   /\ body.c2Count = 2
                   /\ body.githubHighRiskCount = 1) => body.riskScore = 10
    /\ \A q, r \in C25_Answered :
          LET a == requests[q].response.body
              b == requests[r].response.body
          IN  (/\ a.vulnerabilityCount <= b.vulnerabilityCount
               /\ a.c2Count <= b.c2Count
               /\ a.githubHighRiskCount <= b.githubHighRiskCount) =>
                  a.riskScore <= b.riskScore

\* one request was answered with the counts 3, 2, 1 and the other, whose
\* counts differ in the number of domains only, with a smaller score
C25_Witness ==
    \E q, r \in C25_Answered :
        /\ requests[q].response.body.vulnerabilityCount = 3
        /\ requests[q].response.body.c2Count = 2
        /\ requests[q].response.body.githubHighRiskCount = 1
        /\ requests[r].response.body.vulnerabilityCount = 3
        /\ requests[r].response.body.c2Count = 1
        /\ requests[r].response.body.githubHighRiskCount = 1
        /\ requests[r].response.body.riskScore = 8

----------------------------------------------------------------------------
(* Batch obfuscation scanner (part_002, lines 73-142): CONCURRENCY calls of *)
(* worker() share the index idx.  The state a callback works on is the     *)
(* record [idx, workers, outFiles, scans]; a worker is the record of the   *)
(* await it stands at (pc) and of the list position it took (pos).         *)

BatchState ==
    [idx |-> batchIdx, workers |-> workers, outFiles |-> outFiles,
     scans |-> scans]

Becomes(st) ==
    /\ batchIdx' = st.idx
    /\ workers' = st.workers
    /\ outFiles' = st.outFiles
    /\ scans' = st.scans
    /\ UNCHANGED <<batchPkgs, targets, nonBatchVars>>

\* lines 94-97: outPath is <outDir>/<safe>.json, errPath <outDir>/<safe>.error.json
ResultPath(pkg, ext) == <<safeName(pkg), ext>>

\* fs.writeFileSync(path, ..) in the scan of list position pos
WriteFile(st, pos, path) ==
    [st EXCEPT !.outFiles = @ \cup {path},
               !.scans[pos].wrote = Append(@, path)]

\* scanOne with the `return` of line 105 left out
scanOneNoReturn(st, w, pos) ==
    LET pkg == batchPkgs[pos]
        asked == [st EXCEPT !.workers[w] = [pc |-> "request", pos |-> pos]]
    IN  IF safeName(pkg) \notin targets
        THEN WriteFile(asked, pos, ResultPath(pkg, ".error.json"))
        ELSE asked

\* scanOne(pkg) up to its first await (lines 93-112), called by worker w for
\* the list position pos: without the target directory the error file is
\* written and the call returns, else the request to the server is sent
scanOne(st, w, pos) ==
    LET pkg == batchPkgs[pos]
    IN  IF safeName(pkg) \notin targets
        THEN [WriteFile(st, pos, ResultPath(pkg, ".error.json"))
                 EXCEPT !.workers[w] = [pc |-> "returned", pos |-> pos]]
        ELSE [st EXCEPT !.workers[w] = [pc |-> "request", pos |-> pos]]

\* worker(): the head of the loop, lines 125-132
worker(st, w) ==
    IF st.idx < Len(batchPkgs)
    THEN scanOne([st EXCEPT !.idx = @ + 1,
                            !.scans[st.idx + 1].by = Append(@, w)],
                 w, st.idx + 1)
    ELSE [st EXCEPT !.workers[w].pc = "done"]

\* line 139: new Array(CONCURRENCY).fill(0).map(() => worker()) calls the
\* workers one after the other, each running up to its first await
BatchStart ==
    LET RECURSIVE StartWorkers(_, _)
        StartWorkers(st, w) ==
            IF w > CONCURRENCY THEN st ELSE StartWorkers(worker(st, w), w + 1)
    IN  /\ batchPc = "start"
        /\ batchPc' = "joining"
        /\ Becomes(StartWorkers(BatchState, 1))

\* lines 112-121: axios.get settles; a response is written to outPath, a
\* rejection (timeout, status outside 2xx, no connection) to errPath
ScanResponds(w) ==
    /\ workers[w].pc = "request"
    /\ \E ext \in {".json", ".error.json"} :
          Becomes([WriteFile(BatchState, workers[w].pos,
                             ResultPath(batchPkgs[workers[w].pos], ext))
                      EXCEPT !.workers[w].pc = "returned"])
    /\ UNCHANGED batchPc

\* lines 132-134: `await scanOne(pkg)` resumes and the timer is started
ScanReturns(w) ==
    /\ workers[w].pc = "returned"
    /\ Becomes([BatchState EXCEPT !.workers[w].pc = "backoff"])
    /\ UNCHANGED batchPc

\* line 134: the timer fires and the loop goes round
BackoffEnds(w) ==
    /\ workers[w].pc = "backoff"
    /\ Becomes(worker(BatchState, w))
    /\ UNCHANGED batchPc

\* lines 140-141: Promise.all(workers) resolves, "All done" is printed
BatchDone ==
    /\ batchPc = "joining"
    /\ \A w \in DOMAIN workers : workers[w].pc = "done"
    /\ batchPc' = "done"
    /\ UNCHANGED <<batchIdx, workers, outFiles, scans, batchPkgs, targets,
                   nonBatchVars>>

\* lines 83-91: <outDir> is there, the lines of packages.txt are read; the
\* third name has no directory under baseDir unless none has
BatchInit ==
    /\ OthersIdle("batch")
    /\ batchPkgs \in
          {[k \in 1..n |-> <<Plain, Scoped, <<"m">>, Plused>>[((k - 1) % 4) + 1]]
              : n \in 0..MaxBatch}
    /\ batchIdx = 0
    /\ targets \in {SafeNamesOf(batchPkgs) \ {<<"m">>}, {}}
    /\ workers = [w \in 1..CONCURRENCY |-> [pc |-> "idle", pos |-> 0]]
    /\ outFiles = {}
    /\ scans = [p \in 1..Len(batchPkgs) |-> [by |-> <<>>, wrote |-> <<>>]]
    /\ batchPc = "start"

BatchNext ==
    \/ BatchStart
    \/ \E w \in DOMAIN workers : ScanResponds(w)
    \/ \E w \in DOMAIN workers : ScanReturns(w)
    \/ \E w \in DOMAIN workers : BackoffEnds(w)
    \/ BatchDone

BatchSpec == BatchInit /\ [][BatchNext]_vars

----------------------------------------------------------------------------
(* Claims about the batch obfuscation scanner *)

\* the list positions whose scan has begun and has written nothing yet
C31_Scanning == {p \in DOMAIN scans : scans[p].by # <<>> /\ scans[p].wrote = <<>>}

\* the list positions whose scanOne call has returned
C31_Scanned ==
    {p \in DOMAIN scans :
        /\ scans[p].by # <<>>
        /\ \A w \in DOMAIN workers :
              workers[w].pos = p => workers[w].pc # "request"}

\* C31: with 5 workers sharing one index, in every interleaving the positions
\* handed out are exactly the first idx of the list, each taken by one worker
\* once; at most 5 scans are in flight; a scan writes one file, <safe>.json or
\* <safe>.error.json, and has written exactly one when it returns; and "All
\* done" is reached only with every position taken and scanned.
C31_PoolScansEachOnce ==
    /\ batchIdx \in 0..Len(batchPkgs)
    /\ \A p \in DOMAIN scans :
          /\ Len(scans[p].by) = (IF p <= batchIdx THEN 1 ELSE 0)
          /\ Len(scans[p].wrote) <= 1
          /\ \A k \in DOMAIN scans[p].wrote :
                scans[p].wrote[k] \in {ResultPath(batchPkgs[p], ".json"),
                                       ResultPath(batchPkgs[p], ".error.json")}
          /\ p \in C31_Scanned => Len(scans[p].wrote) = 1
    /\ Cardinality(C31_Scanning) <= CONCURRENCY
    /\ batchPc = "done" =>
          /\ batchIdx = Len(batchPkgs)
          /\ C31_Scanned = DOMAIN scans

\* a finished batch of a list longer than the pool, so that a worker went
\* round its loop, with a result file, an error file for a missing target
\* and an error file for a failed request among the files written
C31_Witness ==
    /\ batchPc = "done"
    /\ Len(batchPkgs) > CONCURRENCY
    /\ \E p, q \in DOMAIN scans : p # q /\ scans[p].by = scans[q].by
    /\ \E p \in DOMAIN scans : scans[p].wrote[1][2] = ".json"
    /\ \E p \in DOMAIN scans :
          /\ safeName(batchPkgs[p]) \notin targets
          /\ scans[p].wrote[1][2] = ".error.json"
    /\ \E p \in DOMAIN scans :
          /\ safeName(batchPkgs[p]) \in targets
          /\ scans[p].wrote[1][2] = ".error.json"

====
